---- MODULE Spec2Model ----
(***************************************************************************)
(* Peer authorization and bounded dispatch of alljoyn_core                 *)
(* (src/src/posix/android/PeerPermission.cc).                              *)
(*                                                                         *)
(* One dispatch thread hands method calls and signals to the thread pool   *)
(* (PeerAuthAndHandleMethodCall / PeerAuthAndHandleSignalCall); every      *)
(* accepted closure runs on a pool worker (MethodCallRunnableAuth::Run,    *)
(* SignalCallRunnableAuth::Run), performs DoPeerPermissionInquiry, records *)
(* the verdict in permCheckedCallMap under chkedCallMapLock and acts on    *)
(* it; CanPeerDoCall is the cached-only query.                             *)
(*                                                                         *)
(* Strings are sequences of character codes.  The thread pool, the daemon  *)
(* (GetConnectionUnixUser) and PermissionDB are the environment: their     *)
(* answers are the inputs of the actions.                                  *)
(***************************************************************************)
EXTENDS Integers, Sequences, FiniteSets, TLC

VARIABLES
    sub,                 \* the dispatch thread inside PeerAuthAndHandle*Call
    task,                \* the closures the pool holds, one per worker
    query,               \* a thread inside CanPeerDoCall
    permCheckedCallMap,  \* the std::map, as its in-order sequence of entries
    chkedCallMapLock,    \* the holder of the mutex
    exhaustBudget,       \* how often the pool may still answer "exhausted"
    cacheLog,            \* history: what was recorded since the last clear
    cmp                  \* a caller of PermCheckedEntry::operator<

vars == <<sub, task, query, permCheckedCallMap, chkedCallMapLock, exhaustBudget,
          cacheLog, cmp>>

----------------------------------------------------------------------------
(* Bounds of the model *)

\* the capacity of the cache (the program's value lives in PeerPermission.h)
MAX_PERM_CHECKEDCALL_SIZE == 2
\* workers of the thread pool
PoolSize == 1
\* the longest subscriber list of a signal
MaxSubs == 2
\* the most "exhausted" answers of the pool in the fair specification
MaxExhausted == 2
\* the longest permission string that is parsed on its own
MaxPermLen == 4

----------------------------------------------------------------------------
(* Status codes (alljoyn/Status.h) *)

ER_OK == 0
ER_FAIL == 1
ER_TIMEOUT == 10
ER_THREADPOOL_EXHAUSTED == 4127
ER_THREADPOOL_STOPPING == 4128
ER_ALLJOYN_ACCESS_PERMISSION_ERROR == 37028

ER_BAD_ARG_COUNT == 28
ER_WARNING == 29
ER_COMMON_ERRORS == 4096
ER_NONE == 65535
ER_BUS_ERRORS == 36864

\* typedef enum { ... } QStatus: the enumerators in the order of their
\* declaration, each with the value it is declared with
QStatus ==
    << [name |-> "ER_OK", value |-> 0],
       [name |-> "ER_FAIL", value |-> 1],
       [name |-> "ER_UTF_CONVERSION_FAILED", value |-> 2],
       [name |-> "ER_BUFFER_TOO_SMALL", value |-> 3],
       [name |-> "ER_OS_ERROR", value |-> 4],
       [name |-> "ER_OUT_OF_MEMORY", value |-> 5],
       [name |-> "ER_SOCKET_BIND_ERROR", value |-> 6],
       [name |-> "ER_INIT_FAILED", value |-> 7],
       [name |-> "ER_WOULDBLOCK", value |-> 8],
       [name |-> "ER_NOT_IMPLEMENTED", value |-> 9],
       [name |-> "ER_TIMEOUT", value |-> 10],
       [name |-> "ER_SOCK_OTHER_END_CLOSED", value |-> 11],
       [name |-> "ER_BAD_ARG_1", value |-> 12],
       [name |-> "ER_BAD_ARG_2", value |-> 13],
       [name |-> "ER_BAD_ARG_3", value |-> 14],
       [name |-> "ER_BAD_ARG_4", value |-> 15],
       [name |-> "ER_BAD_ARG_5", value |-> 16],
       [name |-> "ER_BAD_ARG_6", value |-> 17],
       [name |-> "ER_BAD_ARG_7", value |-> 18],
       [name |-> "ER_BAD_ARG_8", value |-> 19],
       [name |-> "ER_INVALID_ADDRESS", value |-> 20],
       [name |-> "ER_INVALID_DATA", value |-> 21],
       [name |-> "ER_READ_ERROR", value |-> 22],
       [name |-> "ER_WRITE_ERROR", value |-> 23],
       [name |-> "ER_OPEN_FAILED", value |-> 24],
       [name |-> "ER_PARSE_ERROR", value |-> 25],
       [name |-> "ER_END_OF_DATA", value |-> 26],
       [name |-> "ER_CONN_REFUSED", value |-> 27],
       [name |-> "ER_BAD_ARG_COUNT", value |-> 28],
       [name |-> "ER_WARNING", value |-> 29],
       [name |-> "ER_COMMON_ERRORS", value |-> 4096],
       [name |-> "ER_STOPPING_THREAD", value |-> 4097],
       [name |-> "ER_ALERTED_THREAD", value |-> 4098],
       [name |-> "ER_XML_MALFORMED", value |-> 4099],
       [name |-> "ER_AUTH_FAIL", value |-> 4100],
       [name |-> "ER_AUTH_USER_REJECT", value |-> 4101],
       [name |-> "ER_NO_SUCH_ALARM", value |-> 4102],
       [name |-> "ER_TIMER_FALLBEHIND", value |-> 4103],
       [name |-> "ER_SSL_ERRORS", value |-> 4104],
       [name |-> "ER_SSL_INIT", value |-> 4105],
       [name |-> "ER_SSL_CONNECT", value |-> 4106],
       [name |-> "ER_SSL_VERIFY", value |-> 4107],
       [name |-> "ER_EXTERNAL_THREAD", value |-> 4108],
       [name |-> "ER_CRYPTO_ERROR", value |-> 4109],
       [name |-> "ER_CRYPTO_TRUNCATED", value |-> 4110],
       [name |-> "ER_CRYPTO_KEY_UNAVAILABLE", value |-> 4111],
       [name |-> "ER_BAD_HOSTNAME", value |-> 4112],
       [name |-> "ER_CRYPTO_KEY_UNUSABLE", value |-> 4113],
       [name |-> "ER_EMPTY_KEY_BLOB", value |-> 4114],
       [name |-> "ER_CORRUPT_KEYBLOB", value |-> 4115],
       [name |-> "ER_INVALID_KEY_ENCODING", value |-> 4116],
       [name |-> "ER_DEAD_THREAD", value |-> 4117],
       [name |-> "ER_THREAD_RUNNING", value |-> 4118],
       [name |-> "ER_THREAD_STOPPING", value |-> 4119],
       [name |-> "ER_BAD_STRING_ENCODING", value |-> 4120],
       [name |-> "ER_CRYPTO_INSUFFICIENT_SECURITY", value |-> 4121],
       [name |-> "ER_CRYPTO_ILLEGAL_PARAMETERS", value |-> 4122],
       [name |-> "ER_CRYPTO_HASH_UNINITIALIZED", value |-> 4123],
       [name |-> "ER_THREAD_NO_WAIT", value |-> 4124],
       [name |-> "ER_TIMER_EXITING", value |-> 4125],
       [name |-> "ER_INVALID_GUID", value |-> 4126],
       [name |-> "ER_THREADPOOL_EXHAUSTED", value |-> 4127],
       [name |-> "ER_THREADPOOL_STOPPING", value |-> 4128],
       [name |-> "ER_INVALID_STREAM", value |-> 4129],
       [name |-> "ER_TIMER_FULL", value |-> 4130],
       [name |-> "ER_NONE", value |-> 65535],
       [name |-> "ER_BUS_ERRORS", value |-> 36864],
       [name |-> "ER_BUS_READ_ERROR", value |-> 36865],
       [name |-> "ER_BUS_WRITE_ERROR", value |-> 36866],
       [name |-> "ER_BUS_BAD_VALUE_TYPE", value |-> 36867],
       [name |-> "ER_BUS_BAD_HEADER_FIELD", value |-> 36868],
       [name |-> "ER_BUS_BAD_SIGNATURE", value |-> 36869],
       [name |-> "ER_BUS_BAD_OBJ_PATH", value |-> 36870],
       [name |-> "ER_BUS_BAD_MEMBER_NAME", value |-> 36871],
       [name |-> "ER_BUS_BAD_INTERFACE_NAME", value |-> 36872],
       [name |-> "ER_BUS_BAD_ERROR_NAME", value |-> 36873],
       [name |-> "ER_BUS_BAD_BUS_NAME", value |-> 36874],
       [name |-> "ER_BUS_NAME_TOO_LONG", value |-> 36875],
       [name |-> "ER_BUS_BAD_LENGTH", value |-> 36876],
       [name |-> "ER_BUS_BAD_VALUE", value |-> 36877],
       [name |-> "ER_BUS_BAD_HDR_FLAGS", value |-> 36878],
       [name |-> "ER_BUS_BAD_BODY_LEN", value |-> 36879],
       [name |-> "ER_BUS_BAD_HEADER_LEN", value |-> 36880],
       [name |-> "ER_BUS_UNKNOWN_SERIAL", value |-> 36881],
       [name |-> "ER_BUS_UNKNOWN_PATH", value |-> 36882],
       [name |-> "ER_BUS_UNKNOWN_INTERFACE", value |-> 36883],
       [name |-> "ER_BUS_ESTABLISH_FAILED", value |-> 36884],
       [name |-> "ER_BUS_UNEXPECTED_SIGNATURE", value |-> 36885],
       [name |-> "ER_BUS_INTERFACE_MISSING", value |-> 36886],
       [name |-> "ER_BUS_PATH_MISSING", value |-> 36887],
       [name |-> "ER_BUS_MEMBER_MISSING", value |-> 36888],
       [name |-> "ER_BUS_REPLY_SERIAL_MISSING", value |-> 36889],
       [name |-> "ER_BUS_ERROR_NAME_MISSING", value |-> 36890],
       [name |-> "ER_BUS_INTERFACE_NO_SUCH_MEMBER", value |-> 36891],
       [name |-> "ER_BUS_NO_SUCH_OBJECT", value |-> 36892],
       [name |-> "ER_BUS_OBJECT_NO_SUCH_MEMBER", value |-> 36893],
       [name |-> "ER_BUS_OBJECT_NO_SUCH_INTERFACE", value |-> 36894],
       [name |-> "ER_BUS_NO_SUCH_INTERFACE", value |-> 36895],
       [name |-> "ER_BUS_MEMBER_NO_SUCH_SIGNATURE", value |-> 36896],
       [name |-> "ER_BUS_NOT_NUL_TERMINATED", value |-> 36897],
       [name |-> "ER_BUS_NO_SUCH_PROPERTY", value |-> 36898],
       [name |-> "ER_BUS_SET_WRONG_SIGNATURE", value |-> 36899],
       [name |-> "ER_BUS_PROPERTY_VALUE_NOT_SET", value |-> 36900],
       [name |-> "ER_BUS_PROPERTY_ACCESS_DENIED", value |-> 36901],
       [name |-> "ER_BUS_NO_TRANSPORTS", value |-> 36902],
       [name |-> "ER_BUS_BAD_TRANSPORT_ARGS", value |-> 36903],
       [name |-> "ER_BUS_NO_ROUTE", value |-> 36904],
       [name |-> "ER_BUS_NO_ENDPOINT", value |-> 36905],
       [name |-> "ER_BUS_BAD_SEND_PARAMETER", value |-> 36906],
       [name |-> "ER_BUS_UNMATCHED_REPLY_SERIAL", value |-> 36907],
       [name |-> "ER_BUS_BAD_SENDER_ID", value |-> 36908],
       [name |-> "ER_BUS_TRANSPORT_NOT_STARTED", value |-> 36909],
       [name |-> "ER_BUS_EMPTY_MESSAGE", value |-> 36910],
       [name |-> "ER_BUS_NOT_OWNER", value |-> 36911],
       [name |-> "ER_BUS_SET_PROPERTY_REJECTED", value |-> 36912],
       [name |-> "ER_BUS_CONNECT_FAILED", value |-> 36913],
       [name |-> "ER_BUS_REPLY_IS_ERROR_MESSAGE", value |-> 36914],
       [name |-> "ER_BUS_NOT_AUTHENTICATING", value |-> 36915],
       [name |-> "ER_BUS_NO_LISTENER", value |-> 36916],
       [name |-> "ER_BUS_BT_TRANSPORT_ERROR", value |-> 36917],
       [name |-> "ER_BUS_NOT_ALLOWED", value |-> 36918],
       [name |-> "ER_BUS_WRITE_QUEUE_FULL", value |-> 36919],
       [name |-> "ER_BUS_ENDPOINT_CLOSING", value |-> 36920],
       [name |-> "ER_BUS_INTERFACE_MISMATCH", value |-> 36921],
       [name |-> "ER_BUS_MEMBER_ALREADY_EXISTS", value |-> 36922],
       [name |-> "ER_BUS_PROPERTY_ALREADY_EXISTS", value |-> 36923],
       [name |-> "ER_BUS_IFACE_ALREADY_EXISTS", value |-> 36924],
       [name |-> "ER_BUS_ERROR_RESPONSE", value |-> 36925],
       [name |-> "ER_BUS_BAD_XML", value |-> 36926],
       [name |-> "ER_BUS_BAD_CHILD_PATH", value |-> 36927],
       [name |-> "ER_BUS_OBJ_ALREADY_EXISTS", value |-> 36928],
       [name |-> "ER_BUS_OBJ_NOT_FOUND", value |-> 36929],
       [name |-> "ER_BUS_CANNOT_EXPAND_MESSAGE", value |-> 36930],
       [name |-> "ER_BUS_NOT_COMPRESSED", value |-> 36931],
       [name |-> "ER_BUS_ALREADY_CONNECTED", value |-> 36932],
       [name |-> "ER_BUS_NOT_CONNECTED", value |-> 36933],
       [name |-> "ER_BUS_ALREADY_LISTENING", value |-> 36934],
       [name |-> "ER_BUS_KEY_UNAVAILABLE", value |-> 36935],
       [name |-> "ER_BUS_TRUNCATED", value |-> 36936],
       [name |-> "ER_BUS_KEY_STORE_NOT_LOADED", value |-> 36937],
       [name |-> "ER_BUS_NO_AUTHENTICATION_MECHANISM", value |-> 36938],
       [name |-> "ER_BUS_BUS_ALREADY_STARTED", value |-> 36939],
       [name |-> "ER_BUS_BUS_NOT_STARTED", value |-> 36940],
       [name |-> "ER_BUS_KEYBLOB_OP_INVALID", value |-> 36941],
       [name |-> "ER_BUS_INVALID_HEADER_CHECKSUM", value |-> 36942],
       [name |-> "ER_BUS_MESSAGE_NOT_ENCRYPTED", value |-> 36943],
       [name |-> "ER_BUS_INVALID_HEADER_SERIAL", value |-> 36944],
       [name |-> "ER_BUS_TIME_TO_LIVE_EXPIRED", value |-> 36945],
       [name |-> "ER_BUS_HDR_EXPANSION_INVALID", value |-> 36946],
       [name |-> "ER_BUS_MISSING_COMPRESSION_TOKEN", value |-> 36947],
       [name |-> "ER_BUS_NO_PEER_GUID", value |-> 36948],
       [name |-> "ER_BUS_MESSAGE_DECRYPTION_FAILED", value |-> 36949],
       [name |-> "ER_BUS_SECURITY_FATAL", value |-> 36950],
       [name |-> "ER_BUS_KEY_EXPIRED", value |-> 36951],
       [name |-> "ER_BUS_CORRUPT_KEYSTORE", value |-> 36952],
       [name |-> "ER_BUS_NO_CALL_FOR_REPLY", value |-> 36953],
       [name |-> "ER_BUS_NOT_A_COMPLETE_TYPE", value |-> 36954],
       [name |-> "ER_BUS_POLICY_VIOLATION", value |-> 36955],
       [name |-> "ER_BUS_NO_SUCH_SERVICE", value |-> 36956],
       [name |-> "ER_BUS_TRANSPORT_NOT_AVAILABLE", value |-> 36957],
       [name |-> "ER_BUS_INVALID_AUTH_MECHANISM", value |-> 36958],
       [name |-> "ER_BUS_KEYSTORE_VERSION_MISMATCH", value |-> 36959],
       [name |-> "ER_BUS_BLOCKING_CALL_NOT_ALLOWED", value |-> 36960],
       [name |-> "ER_BUS_SIGNATURE_MISMATCH", value |-> 36961],
       [name |-> "ER_BUS_STOPPING", value |-> 36962],
       [name |-> "ER_BUS_METHOD_CALL_ABORTED", value |-> 36963],
       [name |-> "ER_BUS_CANNOT_ADD_INTERFACE", value |-> 36964],
       [name |-> "ER_BUS_CANNOT_ADD_HANDLER", value |-> 36965],
       [name |-> "ER_BUS_KEYSTORE_NOT_LOADED", value |-> 36966],
       [name |-> "ER_BUS_NO_SUCH_HANDLE", value |-> 36971],
       [name |-> "ER_BUS_HANDLES_NOT_ENABLED", value |-> 36972],
       [name |-> "ER_BUS_HANDLES_MISMATCH", value |-> 36973],
       [name |-> "ER_BT_MAX_CONNECTIONS_USED", value |-> 36974],
       [name |-> "ER_BUS_NO_SESSION", value |-> 36975],
       [name |-> "ER_BUS_ELEMENT_NOT_FOUND", value |-> 36976],
       [name |-> "ER_BUS_NOT_A_DICTIONARY", value |-> 36977],
       [name |-> "ER_BUS_WAIT_FAILED", value |-> 36978],
       [name |-> "ER_BUS_BAD_SESSION_OPTS", value |-> 36980],
       [name |-> "ER_BUS_CONNECTION_REJECTED", value |-> 36981],
       [name |-> "ER_DBUS_REQUEST_NAME_REPLY_PRIMARY_OWNER", value |-> 36982],
       [name |-> "ER_DBUS_REQUEST_NAME_REPLY_IN_QUEUE", value |-> 36983],
       [name |-> "ER_DBUS_REQUEST_NAME_REPLY_EXISTS", value |-> 36984],
       [name |-> "ER_DBUS_REQUEST_NAME_REPLY_ALREADY_OWNER", value |-> 36985],
       [name |-> "ER_DBUS_RELEASE_NAME_REPLY_RELEASED", value |-> 36986],
       [name |-> "ER_DBUS_RELEASE_NAME_REPLY_NON_EXISTENT", value |-> 36987],
       [name |-> "ER_DBUS_RELEASE_NAME_REPLY_NOT_OWNER", value |-> 36988],
       [name |-> "ER_DBUS_START_REPLY_ALREADY_RUNNING", value |-> 36990],
       [name |-> "ER_ALLJOYN_BINDSESSIONPORT_REPLY_ALREADY_EXISTS", value |-> 36992],
       [name |-> "ER_ALLJOYN_BINDSESSIONPORT_REPLY_FAILED", value |-> 36993],
       [name |-> "ER_ALLJOYN_JOINSESSION_REPLY_NO_SESSION", value |-> 36995],
       [name |-> "ER_ALLJOYN_JOINSESSION_REPLY_UNREACHABLE", value |-> 36996],
       [name |-> "ER_ALLJOYN_JOINSESSION_REPLY_CONNECT_FAILED", value |-> 36997],
       [name |-> "ER_ALLJOYN_JOINSESSION_REPLY_REJECTED", value |-> 36998],
       [name |-> "ER_ALLJOYN_JOINSESSION_REPLY_BAD_SESSION_OPTS", value |-> 36999],
       [name |-> "ER_ALLJOYN_JOINSESSION_REPLY_FAILED", value |-> 37000],
       [name |-> "ER_ALLJOYN_LEAVESESSION_REPLY_NO_SESSION", value |-> 37002],
       [name |-> "ER_ALLJOYN_LEAVESESSION_REPLY_FAILED", value |-> 37003],
       [name |-> "ER_ALLJOYN_ADVERTISENAME_REPLY_ALREADY_ADVERTISING", value |-> 37005],
       [name |-> "ER_ALLJOYN_ADVERTISENAME_REPLY_FAILED", value |-> 37006],
       [name |-> "ER_ALLJOYN_CANCELADVERTISENAME_REPLY_FAILED", value |-> 37008],
       [name |-> "ER_ALLJOYN_FINDADVERTISEDNAME_REPLY_ALREADY_DISCOVERING", value |-> 37010],
       [name |-> "ER_ALLJOYN_FINDADVERTISEDNAME_REPLY_FAILED", value |-> 37011],
       [name |-> "ER_ALLJOYN_CANCELFINDADVERTISEDNAME_REPLY_FAILED", value |-> 37013],
       [name |-> "ER_BUS_UNEXPECTED_DISPOSITION", value |-> 37014],
       [name |-> "ER_BUS_INTERFACE_ACTIVATED", value |-> 37015],
       [name |-> "ER_ALLJOYN_UNBINDSESSIONPORT_REPLY_BAD_PORT", value |-> 37016],
       [name |-> "ER_ALLJOYN_UNBINDSESSIONPORT_REPLY_FAILED", value |-> 37017],
       [name |-> "ER_ALLJOYN_BINDSESSIONPORT_REPLY_INVALID_OPTS", value |-> 37018],
       [name |-> "ER_ALLJOYN_JOINSESSION_REPLY_ALREADY_JOINED", value |-> 37019],
       [name |-> "ER_BUS_SELF_CONNECT", value |-> 37020],
       [name |-> "ER_BUS_SECURITY_NOT_ENABLED", value |-> 37021],
       [name |-> "ER_BUS_LISTENER_ALREADY_SET", value |-> 37022],
       [name |-> "ER_BUS_PEER_AUTH_VERSION_MISMATCH", value |-> 37023],
       [name |-> "ER_ALLJOYN_SETLINKTIMEOUT_REPLY_NOT_SUPPORTED", value |-> 37024],
       [name |-> "ER_ALLJOYN_SETLINKTIMEOUT_REPLY_NO_DEST_SUPPORT", value |-> 37025],
       [name |-> "ER_ALLJOYN_SETLINKTIMEOUT_REPLY_FAILED", value |-> 37026],
       [name |-> "ER_ALLJOYN_ACCESS_PERMISSION_WARNING", value |-> 37027],
       [name |-> "ER_ALLJOYN_ACCESS_PERMISSION_ERROR", value |-> 37028],
       [name |-> "ER_BUS_DESTINATION_NOT_AUTHENTICATED", value |-> 37029],
       [name |-> "ER_BUS_ENDPOINT_REDIRECTED", value |-> 37030],
       [name |-> "ER_BUS_AUTHENTICATION_PENDING", value |-> 37031],
       [name |-> "ER_BUS_NOT_AUTHORIZED", value |-> 37032],
       [name |-> "ER_PACKET_BUS_NO_SUCH_CHANNEL", value |-> 37033],
       [name |-> "ER_PACKET_BAD_FORMAT", value |-> 37034],
       [name |-> "ER_PACKET_CONNECT_TIMEOUT", value |-> 37035],
       [name |-> "ER_PACKET_CHANNEL_FAIL", value |-> 37036],
       [name |-> "ER_PACKET_TOO_LARGE", value |-> 37037],
       [name |-> "ER_PACKET_BAD_PARAMETER", value |-> 37038],
       [name |-> "ER_PACKET_BAD_CRC", value |-> 37039],
       [name |-> "ER_STUN_ATTR_SIZE_MISMATCH", value |-> 37040],
       [name |-> "ER_STUN_AUTH_CHALLENGE", value |-> 37041],
       [name |-> "ER_STUN_SOCKET_NOT_OPEN", value |-> 37042],
       [name |-> "ER_STUN_SOCKET_OPEN", value |-> 37043],
       [name |-> "ER_STUN_FAILED_TO_SEND_MSG", value |-> 37044],
       [name |-> "ER_STUN_FRAMING_ERROR", value |-> 37045],
       [name |-> "ER_STUN_INVALID_ERROR_CODE", value |-> 37046],
       [name |-> "ER_STUN_INVALID_FINGERPRINT", value |-> 37047],
       [name |-> "ER_STUN_INVALID_ADDR_FAMILY", value |-> 37048],
       [name |-> "ER_STUN_INVALID_MESSAGE_INTEGRITY", value |-> 37049],
       [name |-> "ER_STUN_INVALID_MSG_TYPE", value |-> 37050],
       [name |-> "ER_STUN_INVALID_ATTR_TYPE", value |-> 37051],
       [name |-> "ER_STUN_RESPONSE_WITH_USERNAME", value |-> 37052],
       [name |-> "ER_STUN_ERR400_BAD_REQUEST", value |-> 37053],
       [name |-> "ER_STUN_BAD_INDICATION", value |-> 37054],
       [name |-> "ER_STUN_ERR401_UNAUTHORIZED_REQUEST", value |-> 37055],
       [name |-> "ER_STUN_TOO_MANY_ATTRIBUTES", value |-> 37056],
       [name |-> "ER_STUN_DUPLICATE_ATTRIBUTE", value |-> 37057],
       [name |-> "ER_STUN_UNAUTHORIZED_INDICATION", value |-> 37058],
       [name |-> "ER_ICE_ALLOCATING_MEMORY", value |-> 37059],
       [name |-> "ER_ICE_CHECKS_INCOMPLETE", value |-> 37060],
       [name |-> "ER_ICE_ALLOCATE_REJECTED_NO_RESOURCES", value |-> 37061],
       [name |-> "ER_ICE_ALLOCATION_QUOTA_REACHED", value |-> 37062],
       [name |-> "ER_ICE_ALLOCATION_MISMATCH", value |-> 37063],
       [name |-> "ER_ICE_STUN_ERROR", value |-> 37064],
       [name |-> "ER_ICE_INVALID_STATE", value |-> 37065],
       [name |-> "ER_ICE_UNKNOWN_COMPONENT_ID", value |-> 37066],
       [name |-> "ER_RENDEZVOUS_SERVER_DEACTIVATED_USER", value |-> 37067],
       [name |-> "ER_RENDEZVOUS_SERVER_UNKNOWN_USER", value |-> 37068],
       [name |-> "ER_UNABLE_TO_CONNECT_TO_RENDEZVOUS_SERVER", value |-> 37069],
       [name |-> "ER_NOT_CONNECTED_TO_RENDEZVOUS_SERVER", value |-> 37070],
       [name |-> "ER_UNABLE_TO_SEND_MESSAGE_TO_RENDEZVOUS_SERVER", value |-> 37071],
       [name |-> "ER_INVALID_RENDEZVOUS_SERVER_INTERFACE_MESSAGE", value |-> 37072],
       [name |-> "ER_INVALID_PERSISTENT_CONNECTION_MESSAGE_RESPONSE", value |-> 37073],
       [name |-> "ER_INVALID_ON_DEMAND_CONNECTION_MESSAGE_RESPONSE", value |-> 37074],
       [name |-> "ER_INVALID_HTTP_METHOD_USED_FOR_RENDEZVOUS_SERVER_INTERFACE_MESSAGE", value |-> 37075],
       [name |-> "ER_RENDEZVOUS_SERVER_ERR500_INTERNAL_ERROR", value |-> 37076],
       [name |-> "ER_RENDEZVOUS_SERVER_ERR503_STATUS_UNAVAILABLE", value |-> 37077],
       [name |-> "ER_RENDEZVOUS_SERVER_ERR401_UNAUTHORIZED_REQUEST", value |-> 37078],
       [name |-> "ER_RENDEZVOUS_SERVER_UNRECOVERABLE_ERROR", value |-> 37079],
       [name |-> "ER_RENDEZVOUS_SERVER_ROOT_CERTIFICATE_UNINITIALIZED", value |-> 37080],
       [name |-> "ER_BUS_NO_SUCH_ANNOTATION", value |-> 37081],
       [name |-> "ER_BUS_ANNOTATION_ALREADY_EXISTS", value |-> 37082],
       [name |-> "ER_SOCK_CLOSING", value |-> 37083],
       [name |-> "ER_NO_SUCH_DEVICE", value |-> 37084],
       [name |-> "ER_P2P", value |-> 37085],
       [name |-> "ER_P2P_TIMEOUT", value |-> 37086],
       [name |-> "ER_P2P_NOT_CONNECTED", value |-> 37087],
       [name |-> "ER_BAD_TRANSPORT_MASK", value |-> 37088],
       [name |-> "ER_PROXIMITY_CONNECTION_ESTABLISH_FAIL", value |-> 37089],
       [name |-> "ER_PROXIMITY_NO_PEERS_FOUND", value |-> 37090],
       [name |-> "ER_BUS_OBJECT_NOT_REGISTERED", value |-> 37091],
       [name |-> "ER_P2P_DISABLED", value |-> 37092],
       [name |-> "ER_P2P_BUSY", value |-> 37093],
       [name |-> "ER_BUS_INCOMPATIBLE_DAEMON", value |-> 37094],
       [name |-> "ER_P2P_NO_GO", value |-> 37095],
       [name |-> "ER_P2P_NO_STA", value |-> 37096],
       [name |-> "ER_P2P_FORBIDDEN", value |-> 37097],
       [name |-> "ER_ALLJOYN_ONAPPSUSPEND_REPLY_FAILED", value |-> 37098],
       [name |-> "ER_ALLJOYN_ONAPPSUSPEND_REPLY_UNSUPPORTED", value |-> 37099],
       [name |-> "ER_ALLJOYN_ONAPPRESUME_REPLY_FAILED", value |-> 37100],
       [name |-> "ER_ALLJOYN_ONAPPRESUME_REPLY_UNSUPPORTED", value |-> 37101],
       [name |-> "ER_BUS_NO_SUCH_MESSAGE", value |-> 37102] >>

\* the enumerator values are the ones written in the header, not the
\* consecutive ones an enum without initialisers would get
EnumValue_Consecutive(i) == i - 1

\* the value of the i-th enumerator
EnumValue(i) == QStatus[i].value

\* the position of the enumerator called name
EnumIndex(name) == CHOOSE i \in DOMAIN QStatus : QStatus[i].name = name

\* the block an enumerator is declared in: the header opens the block of the
\* Common subsystem with ER_COMMON_ERRORS and the block of the wire protocol
\* with ER_BUS_ERRORS; what is declared before them is generic
DeclaredBlock(i) ==
    IF i < EnumIndex("ER_COMMON_ERRORS") THEN "generic"
    ELSE IF i < EnumIndex("ER_BUS_ERRORS") THEN "common"
    ELSE "bus"

\* const char* QCC_StatusText(QStatus): the name of the code
QCC_StatusText(status) ==
    CASE status = ER_OK -> "ER_OK"
      [] status = ER_FAIL -> "ER_FAIL"
      [] status = ER_TIMEOUT -> "ER_TIMEOUT"
      [] status = ER_THREADPOOL_EXHAUSTED -> "ER_THREADPOOL_EXHAUSTED"
      [] status = ER_THREADPOOL_STOPPING -> "ER_THREADPOOL_STOPPING"
      [] status = ER_ALLJOYN_ACCESS_PERMISSION_ERROR -> "ER_ALLJOYN_ACCESS_PERMISSION_ERROR"
      [] OTHER -> "<unknown>"

\* PeerPermission::PeerPermStatus
PP_ALLOWED == "PP_ALLOWED"
PP_DENIED == "PP_DENIED"
PP_PENDING == "PP_PENDING"

----------------------------------------------------------------------------
(* qcc::String *)

\* operator< of qcc::String: byte-wise lexicographic, a proper prefix first
StringLess(a, b) ==
    \E i \in 1..(Len(b)) :
        /\ \A j \in 1..(i - 1) : j <= Len(a) /\ a[j] = b[j]
        /\ i - 1 <= Len(a)
        /\ (i > Len(a) \/ a[i] < b[i])

\* the character ';'
SEMICOLON == 59
\* String::npos, as a position no string has
npos == 0

\* permsStr.find_first_of(";"): the first position of ';' (1-based), or npos
find_first_of(s, ch) ==
    IF \E i \in 1..Len(s) : s[i] = ch
    THEN CHOOSE i \in 1..Len(s) : s[i] = ch /\ \A j \in 1..(i - 1) : s[j] # ch
    ELSE npos

\* mutant of SplitPermissions: an empty token is never inserted
RECURSIVE SplitPermissions_SkipsEmpty(_, _)
SplitPermissions_SkipsEmpty(permsStr, permsReq) ==
    LET pos == find_first_of(permsStr, SEMICOLON) IN
    IF pos # npos
    THEN SplitPermissions_SkipsEmpty(SubSeq(permsStr, pos + 1, Len(permsStr)),
                                     IF pos > 1
                                     THEN permsReq \cup {SubSeq(permsStr, 1, pos - 1)}
                                     ELSE permsReq)
    ELSE IF Len(permsStr) > 0 THEN permsReq \cup {permsStr} ELSE permsReq

\* mutant of SplitPermissions: what follows the last ';' is not inserted
RECURSIVE SplitPermissions_NoRemainder(_, _)
SplitPermissions_NoRemainder(permsStr, permsReq) ==
    LET pos == find_first_of(permsStr, SEMICOLON) IN
    IF pos # npos
    THEN SplitPermissions_NoRemainder(SubSeq(permsStr, pos + 1, Len(permsStr)),
                                      permsReq \cup {SubSeq(permsStr, 1, pos - 1)})
    ELSE permsReq

\* lines 59-69 of DoPeerPermissionInquiry: split "PERM0;PERM1;..." into the
\* set permsReq; the string passed by reference is consumed
RECURSIVE SplitPermissions(_, _)
SplitPermissions(permsStr, permsReq) ==
    LET pos == find_first_of(permsStr, SEMICOLON) IN
    IF pos # npos
    THEN SplitPermissions(SubSeq(permsStr, pos + 1, Len(permsStr)),
                          permsReq \cup {SubSeq(permsStr, 1, pos - 1)})
    ELSE IF Len(permsStr) > 0 THEN permsReq \cup {permsStr} ELSE permsReq

----------------------------------------------------------------------------
(* Messages *)

ALLJOYN_FLAG_NO_REPLY_EXPECTED == "NO_REPLY_EXPECTED"

NoMessage ==
    [sender |-> <<>>, objectPath |-> <<>>, iface |-> <<>>, member |-> <<>>,
     flags |-> {}, serial |-> 0]

\* message->Description(): a text that names the call
Description(message) ==
    <<"description", message.sender, message.objectPath, message.iface,
      message.member, message.serial>>

----------------------------------------------------------------------------
(* PermCheckedEntry and the map keyed by it *)

PermCheckedEntry(sender, sourcePath, iface, signalName) ==
    [sender |-> sender, sourcePath |-> sourcePath, iface |-> iface,
     signalName |-> signalName]

EntryOf(message) ==
    PermCheckedEntry(message.sender, message.objectPath, message.iface,
                     message.member)

\* PermCheckedEntry::operator<, as written
EntryLess(a, b) ==
    \/ StringLess(a.sender, b.sender)
    \/ (a.sender = b.sender /\ StringLess(a.sourcePath, b.sourcePath))
    \/ (a.sourcePath = b.sourcePath /\ StringLess(a.iface, b.iface))
    \/ (a.iface = b.iface /\ StringLess(a.signalName, b.signalName))

(* std::map<PermCheckedEntry, bool> is a balanced search tree.  The model   *)
(* keeps its in-order sequence of entries.  A lookup descends from the root *)
(* comparing with operator<; with an operator< that is no strict weak order *)
(* the outcome depends on the shape of the tree, which the library decides: *)
(* the descent may take every root a balanced tree can have for a range.    *)
TreeRoots(lo, hi) ==
    { x \in lo..hi : (x - lo) <= 2 * (hi - x) + 1 /\ (hi - x) <= 2 * (x - lo) + 1 }

\* lower_bound(k): left of a node that is not less than k (remembered as the
\* candidate y), right of one that is; the positions a descent can end at,
\* Len + 1 standing for end()
RECURSIVE LowerBound(_, _, _, _, _)
LowerBound(m, k, lo, hi, y) ==
    IF lo > hi THEN {y}
    ELSE UNION { IF ~EntryLess(m[x].key, k)
                 THEN LowerBound(m, k, lo, x - 1, x)
                 ELSE LowerBound(m, k, x + 1, hi, y) : x \in TreeRoots(lo, hi) }

MapLowerBound(m, k) == LowerBound(m, k, 1, Len(m), Len(m) + 1)

\* whether lower_bound's position p holds the key: i == end() || k < i->first
MapMiss(m, k, p) == p = Len(m) + 1 \/ EntryLess(k, m[p].key)

\* find(k): the positions of the entry found, 0 for end()
MapFind(m, k) == { IF MapMiss(m, k, p) THEN 0 ELSE p : p \in MapLowerBound(m, k) }

\* whether operator< orders the keys of S strictly: only then is the
\* behaviour of the map defined
StrictlyOrdered(S) ==
    /\ \A a, b \in S : ~(EntryLess(a, b) /\ EntryLess(b, a))
    /\ \A a, b, c \in S : (EntryLess(a, b) /\ EntryLess(b, c)) => EntryLess(a, c)

Keys(m) == { m[i].key : i \in 1..Len(m) }

\* where a missing key is inserted: at the position lower_bound gave; when
\* operator< does not order the keys strictly the library's own comparisons
\* for the side of the parent disagree with the descent, and the node may
\* come to lie anywhere in the order
InsertPositions(m, k, p) ==
    IF StrictlyOrdered(Keys(m) \cup {k}) THEN {p} ELSE 1..(Len(m) + 1)

\* mutant of MapAssign: insert(make_pair(k, v)), which keeps the value of an
\* entry found
MapAssign_InsertOnly(m, k, v) ==
    UNION { IF MapMiss(m, k, p)
            THEN { SubSeq(m, 1, q - 1) \o <<[key |-> k, val |-> v]>> \o SubSeq(m, q, Len(m)) :
                   q \in InsertPositions(m, k, p) }
            ELSE { m } : p \in MapLowerBound(m, k) }

\* m[k] = v: the entry found is overwritten, a missing one is inserted; the
\* maps that can result
MapAssign(m, k, v) ==
    UNION { IF MapMiss(m, k, p)
            THEN { SubSeq(m, 1, q - 1) \o <<[key |-> k, val |-> v]>> \o SubSeq(m, q, Len(m)) :
                   q \in InsertPositions(m, k, p) }
            ELSE { [m EXCEPT ![p].val = v] } : p \in MapLowerBound(m, k) }

----------------------------------------------------------------------------
(* The state of the threads *)

NoStatus == 0 - 1
Unbounded == 0 - 1
\* a uint32_t is kept as the signed integer with the same 32 bits (the model
\* checker's integers have 32 bits): (uint32_t)-1 = 0xFFFFFFFF is -1
NoUser == 0 - 1

Slots == 1..PoolSize

Idle ==
    [pc |-> "idle", type |-> "none", message |-> NoMessage, permStr |-> <<>>,
     n |-> 0, i |-> 0, status |-> ER_OK, ret |-> NoStatus,
     waitRet |-> NoStatus, execRet |-> NoStatus, retried |-> FALSE,
     accepted |-> 0, workers |-> {}, outcomes |-> <<>>]

Free ==
    [pc |-> "free", type |-> "none", entry |-> 0, message |-> NoMessage,
     permStr |-> <<>>, permsReq |-> {}, status |-> ER_OK, userId |-> NoUser,
     verified |-> <<>>, allowed |-> TRUE, pps |-> PP_PENDING,
     handled |-> <<>>, replies |-> <<>>, input |-> <<>>]

\* the holders of chkedCallMapLock
Unlocked == <<"free", 0>>
Worker(w) == <<"worker", w>>
Querier == <<"query", 0>>

NoQuery == [pc |-> "idle", message |-> NoMessage, pps |-> PP_PENDING]

\* the history of the cache: the verdict last recorded for every signature
\* since the last clear, and whether a clear has happened
NoLog == [recorded |-> {}, cleared |-> FALSE]
Cleared == [recorded |-> {}, cleared |-> TRUE]
Recorded(log, k, v) ==
    [log EXCEPT !.recorded = { e \in @ : e.key # k } \cup {[key |-> k, val |-> v]}]

NoEntry == PermCheckedEntry(<<>>, <<>>, <<>>, <<>>)
NoCompare ==
    [pc |-> "none", a |-> NoEntry, b |-> NoEntry, c |-> NoEntry,
     ab |-> FALSE, ba |-> FALSE, bc |-> FALSE, ac |-> FALSE]

Init ==
    /\ sub = Idle
    /\ task = [s \in Slots |-> Free]
    /\ query = NoQuery
    /\ permCheckedCallMap = <<>>
    /\ chkedCallMapLock = Unlocked
    /\ exhaustBudget = Unbounded
    /\ cacheLog = NoLog
    /\ cmp = NoCompare

Workers == DOMAIN task

FreeSlots == { s \in Workers : task[s].pc = "free" }

----------------------------------------------------------------------------
(* PeerAuthAndHandleMethodCall and PeerAuthAndHandleSignalCall *)

\* lines 198-199: status = ER_OK and the closure of the call
MethodCall(message, permStr) ==
    /\ sub.pc \in {"idle", "returned"}
    /\ sub' = [Idle EXCEPT !.pc = "wait", !.type = "method",
                           !.message = message, !.permStr = permStr]
    /\ UNCHANGED <<task, query, permCheckedCallMap, chkedCallMapLock, exhaustBudget, cacheLog, cmp>>

\* lines 219-228: status = ER_OK, and the closure of the first subscriber if
\* the list has one
SignalCall(message, permStr, n) ==
    /\ sub.pc \in {"idle", "returned"}
    /\ sub' = IF n = 0
              THEN [Idle EXCEPT !.pc = "returned", !.type = "signal",
                                !.message = message, !.permStr = permStr,
                                !.i = 1, !.ret = ER_OK]
              ELSE [Idle EXCEPT !.pc = "wait", !.type = "signal",
                                !.message = message, !.permStr = permStr,
                                !.n = n, !.i = 1]
    /\ UNCHANGED <<task, query, permCheckedCallMap, chkedCallMapLock, exhaustBudget, cacheLog, cmp>>

\* mutants of MethodAfterWait: the status of the wait is ignored; the test of
\* the status is inverted
MethodAfterWait_Ignored(status) == "execute"
MethodAfterWait_Inverted(status) == IF status = ER_OK THEN "break" ELSE "execute"

\* lines 202-204: what the method loop does with WaitForAvailableThread's status
MethodAfterWait(status) == IF status # ER_OK THEN "break" ELSE "execute"

\* mutants of MethodAfterExecute: no retry at all; a retry after every failure
MethodAfterExecute_NoRetry(status) == "break"
MethodAfterExecute_RetryFailures(status) ==
    IF status = ER_OK THEN "break" ELSE "continue"

\* lines 207-211: what the method loop does with Execute's status
MethodAfterExecute(status) ==
    IF status = ER_THREADPOOL_EXHAUSTED THEN "continue" ELSE "break"

\* lines 231-233
SignalAfterWait(status) == IF status # ER_OK THEN "break" ELSE "execute"

\* lines 236-240
SignalAfterExecute(status) ==
    IF status = ER_THREADPOOL_EXHAUSTED THEN "continue" ELSE "break"

\* line 213: the method call returns status
MethodReturn(s) == [s EXCEPT !.pc = "returned", !.ret = s.status]

\* mutant of SignalNext: a failure, once met, is what the fan-out returns
SignalNext_KeepsFailure(s) ==
    LET done == [s EXCEPT !.outcomes = Append(s.outcomes, s.status)]
        bad == { j \in 1..Len(done.outcomes) : done.outcomes[j] # ER_OK }
        first == CHOOSE j \in bad : \A k \in bad : j <= k
    IN IF s.i < s.n
       THEN [done EXCEPT !.i = s.i + 1, !.pc = "wait", !.accepted = 0,
                         !.waitRet = NoStatus, !.execRet = NoStatus,
                         !.retried = FALSE]
       ELSE [done EXCEPT !.i = s.i + 1, !.pc = "returned",
                         !.ret = IF bad = {} THEN s.status ELSE done.outcomes[first]]

\* mutant of SignalNext: the first subscriber whose submission failed ends
\* the fan-out
SignalNext_StopAtFailure(s) ==
    LET done == [s EXCEPT !.outcomes = Append(s.outcomes, s.status)] IN
    IF s.i < s.n /\ s.status = ER_OK
    THEN [done EXCEPT !.i = s.i + 1, !.pc = "wait", !.accepted = 0,
                      !.waitRet = NoStatus, !.execRet = NoStatus,
                      !.retried = FALSE]
    ELSE [done EXCEPT !.i = s.i + 1, !.pc = "returned", !.ret = s.status]

\* lines 221, 242-243: the closure of the next subscriber, or the return of
\* status after the last one
SignalNext(s) ==
    LET done == [s EXCEPT !.outcomes = Append(s.outcomes, s.status)] IN
    IF s.i < s.n
    THEN [done EXCEPT !.i = s.i + 1, !.pc = "wait", !.accepted = 0,
                      !.waitRet = NoStatus, !.execRet = NoStatus,
                      !.retried = FALSE]
    ELSE [done EXCEPT !.i = s.i + 1, !.pc = "returned", !.ret = s.status]

LeaveLoop(s) == IF s.type = "method" THEN MethodReturn(s) ELSE SignalNext(s)

\* lines 201-204 and 230-233: the pool answers the admission wait; ER_OK
\* only once a worker is free
WaitForAvailableThread(status) ==
    /\ sub.pc = "wait"
    /\ status = ER_OK => FreeSlots # {}
    /\ LET s == [sub EXCEPT !.status = status, !.waitRet = status]
           next == IF sub.type = "method" THEN MethodAfterWait(status)
                   ELSE SignalAfterWait(status)
       IN sub' = IF next = "break" THEN LeaveLoop(s) ELSE [s EXCEPT !.pc = "exec"]
    /\ UNCHANGED <<task, query, permCheckedCallMap, chkedCallMapLock, exhaustBudget, cacheLog, cmp>>

\* mutant of Closure: the submitting thread has made the identity request
\* itself and hands over a closure that only has to record
Closure_Inquired(s) ==
    [Free EXCEPT !.pc = "lockwait", !.type = s.type,
                 !.entry = IF s.type = "signal" THEN s.i ELSE 0,
                 !.message = s.message, !.input = s.permStr,
                 !.permsReq = SplitPermissions(s.permStr, {}),
                 !.status = ER_TIMEOUT]

\* the closure as the pool queues it
Closure(s) ==
    [Free EXCEPT !.pc = "queued", !.type = s.type,
                 !.entry = IF s.type = "signal" THEN s.i ELSE 0,
                 !.message = s.message, !.permStr = s.permStr]

\* lines 206-211 and 235-240: the pool answers Execute; ER_OK when it took
\* the closure for a free worker
Execute(status) ==
    /\ sub.pc = "exec"
    /\ status = ER_OK => FreeSlots # {}
    /\ status = ER_THREADPOOL_EXHAUSTED => exhaustBudget # 0
    /\ exhaustBudget' = IF status = ER_THREADPOOL_EXHAUSTED /\ exhaustBudget > 0
                        THEN exhaustBudget - 1 ELSE exhaustBudget
    /\ LET w == IF status = ER_OK
                THEN CHOOSE x \in FreeSlots : \A y \in FreeSlots : x <= y
                ELSE 0
           s == [sub EXCEPT !.status = status, !.execRet = status,
                            !.retried = @ \/ status = ER_THREADPOOL_EXHAUSTED,
                            !.accepted = IF status = ER_OK THEN @ + 1 ELSE @,
                            !.workers = IF status = ER_OK THEN @ \cup {w} ELSE @]
           next == IF sub.type = "method" THEN MethodAfterExecute(status)
                   ELSE SignalAfterExecute(status)
       IN /\ task' = IF status = ER_OK THEN [task EXCEPT ![w] = Closure(sub)]
                     ELSE task
          /\ sub' = IF next = "break" THEN LeaveLoop(s) ELSE [s EXCEPT !.pc = "wait"]
    /\ UNCHANGED <<query, permCheckedCallMap, chkedCallMapLock, cacheLog, cmp>>

----------------------------------------------------------------------------
(* DoPeerPermissionInquiry *)

\* mutant of InitialAllowed: fail-closed
InitialAllowed_Denied == FALSE

\* line 71: bool allowed = true
InitialAllowed == TRUE

\* lines 72, 82-84: userId starts as -1 and takes the reply's value only when
\* the daemon answered ER_OK
ReplyUserId(status, replyUid) == IF status = ER_OK THEN replyUid ELSE NoUser

\* mutants of VerifierAsked: the verifier is asked for every user id; the
\* verifier is asked only while the cache is empty
VerifierAsked_Always(userId) == TRUE
VerifierAsked_UnlessCached(userId) == userId # NoUser /\ permCheckedCallMap = <<>>

\* line 87: the verifier is asked unless userId is (uint32_t)-1
VerifierAsked(userId) == userId # NoUser

\* lines 100-104
VerdictOf(allowed) == IF allowed THEN PP_ALLOWED ELSE PP_DENIED

\* lines 133-136 / 173-176 and 58-80: a worker starts Run, the inquiry
\* splits the permissions and sends GetConnectionUnixUser to the daemon
\* mutant of TaskRun: the inquiry takes the mutex when it is entered
TaskRun_LockFirst(w) ==
    /\ task[w].pc = "queued"
    /\ chkedCallMapLock = Unlocked
    /\ chkedCallMapLock' = Worker(w)
    /\ task' = [task EXCEPT ![w].pc = "identity",
                            ![w].permsReq = SplitPermissions(task[w].permStr, {}),
                            ![w].input = task[w].permStr,
                            ![w].permStr = <<>>,
                            ![w].status = ER_OK,
                            ![w].allowed = InitialAllowed,
                            ![w].userId = NoUser]
    /\ UNCHANGED <<sub, query, permCheckedCallMap, exhaustBudget, cacheLog, cmp>>

TaskRun(w) ==
    /\ task[w].pc = "queued"
    /\ task' = [task EXCEPT ![w].pc = "identity",
                            ![w].permsReq = SplitPermissions(task[w].permStr, {}),
                            ![w].input = task[w].permStr,
                            ![w].permStr = <<>>,
                            ![w].status = ER_OK,
                            ![w].allowed = InitialAllowed,
                            ![w].userId = NoUser]
    /\ UNCHANGED <<sub, query, permCheckedCallMap, chkedCallMapLock, exhaustBudget, cacheLog, cmp>>

\* lines 76-89: the round trip ends with status (and replyUid in the reply);
\* PermissionDB answers verdict when it is asked
IdentityReply(w, status, replyUid, verdict) ==
    /\ task[w].pc = "identity"
    /\ LET userId == ReplyUserId(status, replyUid) IN
       task' = [task EXCEPT
           ![w].pc = "lockwait",
           ![w].status = status,
           ![w].userId = userId,
           ![w].verified = IF VerifierAsked(userId)
                           THEN Append(@, [userId |-> userId,
                                           permsReq |-> task[w].permsReq,
                                           result |-> verdict])
                           ELSE @,
           ![w].allowed = IF VerifierAsked(userId) THEN verdict ELSE @]
    /\ UNCHANGED <<sub, query, permCheckedCallMap, chkedCallMapLock, exhaustBudget, cacheLog, cmp>>

\* mutant of TaskLock: the inquiry enters without waiting for the mutex
TaskLock_NoWait(w) ==
    /\ task[w].pc = "lockwait"
    /\ chkedCallMapLock' = Worker(w)
    /\ task' = [task EXCEPT ![w].pc = "locked"]
    /\ UNCHANGED <<sub, query, permCheckedCallMap, exhaustBudget, cacheLog, cmp>>

\* line 92
TaskLock(w) ==
    /\ task[w].pc = "lockwait"
    /\ chkedCallMapLock = Unlocked
    /\ chkedCallMapLock' = Worker(w)
    /\ task' = [task EXCEPT ![w].pc = "locked"]
    /\ UNCHANGED <<sub, query, permCheckedCallMap, exhaustBudget, cacheLog, cmp>>

\* line 94: the cache is cleared when it holds more than the capacity
CacheFull(m) == Len(m) > MAX_PERM_CHECKEDCALL_SIZE

\* mutant of TaskClear: a record that overwrites does not evict
TaskClear_UnlessCached(w) ==
    /\ task[w].pc = "locked"
    /\ LET evict == /\ CacheFull(permCheckedCallMap)
                    /\ EntryOf(task[w].message) \notin Keys(permCheckedCallMap)
       IN /\ permCheckedCallMap' = IF evict THEN <<>> ELSE permCheckedCallMap
          /\ cacheLog' = IF evict THEN Cleared ELSE cacheLog
    /\ task' = [task EXCEPT ![w].pc = "cleared"]
    /\ UNCHANGED <<sub, query, chkedCallMapLock, exhaustBudget, cmp>>

\* lines 94-96
TaskClear(w) ==
    /\ task[w].pc = "locked"
    /\ permCheckedCallMap' = IF CacheFull(permCheckedCallMap) THEN <<>>
                             ELSE permCheckedCallMap
    /\ cacheLog' = IF CacheFull(permCheckedCallMap) THEN Cleared ELSE cacheLog
    /\ task' = [task EXCEPT ![w].pc = "cleared"]
    /\ UNCHANGED <<sub, query, chkedCallMapLock, exhaustBudget, cmp>>

\* lines 97-98
TaskRecord(w) ==
    /\ task[w].pc = "cleared"
    /\ permCheckedCallMap' \in MapAssign(permCheckedCallMap,
                                         EntryOf(task[w].message), task[w].allowed)
    /\ cacheLog' = Recorded(cacheLog, EntryOf(task[w].message), task[w].allowed)
    /\ task' = [task EXCEPT ![w].pc = "recorded"]
    /\ UNCHANGED <<sub, query, chkedCallMapLock, exhaustBudget, cmp>>

----------------------------------------------------------------------------
(* MethodCallRunnableAuth::Run and SignalCallRunnableAuth::Run *)

\* lines 145-146
ErrorName == "org.alljoyn.Bus." \o QCC_StatusText(ER_ALLJOYN_ACCESS_PERMISSION_ERROR)

\* mutants of MethodCallRun: the handler runs whatever the verdict; the error
\* reply is sent whatever the flags
MethodCallRun_Unchecked(t, pps) ==
    [t EXCEPT !.handled = Append(@, [handler |-> "DoCallMethodHandler",
                                     entry |-> t.entry,
                                     args |-> <<t.message>>])]
MethodCallRun_AlwaysReplies(t, pps) ==
    IF pps = PP_ALLOWED
    THEN [t EXCEPT !.handled = Append(@, [handler |-> "DoCallMethodHandler",
                                          entry |-> t.entry,
                                          args |-> <<t.message>>])]
    ELSE [t EXCEPT !.replies = Append(@, [to |-> t.message,
                                          errStr |-> ErrorName,
                                          errMsg |-> Description(t.message)])]

\* lines 137-150: the method task acts on the verdict
MethodCallRun(t, pps) ==
    IF pps = PP_ALLOWED
    THEN [t EXCEPT !.handled = Append(@, [handler |-> "DoCallMethodHandler",
                                          entry |-> t.entry,
                                          args |-> <<t.message>>])]
    ELSE IF ALLJOYN_FLAG_NO_REPLY_EXPECTED \notin t.message.flags
         THEN [t EXCEPT !.replies = Append(@, [to |-> t.message,
                                               errStr |-> ErrorName,
                                               errMsg |-> Description(t.message)])]
         ELSE t

\* mutant of SignalCallRun: a denied signal is answered like a method call
SignalCallRun_Replies(t, pps) == MethodCallRun(t, pps)

\* lines 177-182: the signal task acts on the verdict
SignalCallRun(t, pps) ==
    IF pps = PP_ALLOWED
    THEN [t EXCEPT !.handled = Append(@, [handler |-> "SignalHandler",
                                          entry |-> t.entry,
                                          args |-> <<t.message.member,
                                                     t.message.objectPath,
                                                     t.message>>])]
    ELSE t

\* lines 99-104, then the rest of Run: the lock is released, the inquiry
\* returns its verdict and the task acts on it
TaskFinish(w) ==
    /\ task[w].pc = "recorded"
    /\ chkedCallMapLock' = Unlocked
    /\ LET pps == VerdictOf(task[w].allowed)
           t == [task[w] EXCEPT !.pc = "done", !.pps = pps]
       IN task' = [task EXCEPT ![w] = IF t.type = "method" THEN MethodCallRun(t, pps)
                                      ELSE SignalCallRun(t, pps)]
    /\ UNCHANGED <<sub, query, permCheckedCallMap, exhaustBudget, cacheLog, cmp>>

\* the pool drops the closure that has run; its worker is free again
TaskReap(w) ==
    /\ task[w].pc = "done"
    /\ task' = [task EXCEPT ![w] = Free]
    /\ UNCHANGED <<sub, query, permCheckedCallMap, chkedCallMapLock, exhaustBudget, cacheLog, cmp>>

----------------------------------------------------------------------------
(* PeerPermission::CanPeerDoCall *)

\* lines 115-119, as written
CachedVerdict(val) == IF ~val THEN PP_ALLOWED ELSE PP_DENIED

\* line 110
QueryCall(message) ==
    /\ query.pc \in {"idle", "returned"}
    /\ query' = [pc |-> "lockwait", message |-> message, pps |-> PP_PENDING]
    /\ UNCHANGED <<sub, task, permCheckedCallMap, chkedCallMapLock, exhaustBudget, cacheLog, cmp>>

\* line 111
QueryLock ==
    /\ query.pc = "lockwait"
    /\ chkedCallMapLock = Unlocked
    /\ chkedCallMapLock' = Querier
    /\ query' = [query EXCEPT !.pc = "locked"]
    /\ UNCHANGED <<sub, task, permCheckedCallMap, exhaustBudget, cacheLog, cmp>>

\* mutant of QueryFound: the value is read without the test of find's result
QueryFound_Always(m, k, p) == TRUE

\* lines 113-114: it != permCheckedCallMap.end()
QueryFound(m, k, p) == ~MapMiss(m, k, p)

\* line 115: permCheckedCallMap[permChkEntry] read through the non-const
\* operator[], which inserts a value-initialised (false) entry for a key it
\* does not find; the same descent as find's ends at the same position p
MapSubscript(m, k, p) ==
    IF MapMiss(m, k, p)
    THEN SubSeq(m, 1, p - 1) \o <<[key |-> k, val |-> FALSE]>> \o SubSeq(m, p, Len(m))
    ELSE m

\* lines 112-120: find, and the value of the entry found
QueryLookup ==
    /\ query.pc = "locked"
    /\ LET m == permCheckedCallMap
           k == EntryOf(query.message)
       IN \E p \in MapLowerBound(m, k) :
            IF QueryFound(m, k, p)
            THEN /\ permCheckedCallMap' = MapSubscript(m, k, p)
                 /\ query' = [query EXCEPT !.pc = "looked",
                                           !.pps = CachedVerdict(MapSubscript(m, k, p)[p].val)]
            ELSE /\ permCheckedCallMap' = m
                 /\ query' = [query EXCEPT !.pc = "looked"]
    /\ UNCHANGED <<sub, task, chkedCallMapLock, exhaustBudget, cacheLog, cmp>>

\* lines 121-122
QueryReturn ==
    /\ query.pc = "looked"
    /\ chkedCallMapLock' = Unlocked
    /\ query' = [query EXCEPT !.pc = "returned"]
    /\ UNCHANGED <<sub, task, permCheckedCallMap, exhaustBudget, cacheLog, cmp>>

----------------------------------------------------------------------------
(* The inputs *)

Message(sender, iface, flags, serial) ==
    [sender |-> sender, objectPath |-> <<47, 97>>, iface |-> iface,
     member |-> <<109>>, flags |-> flags, serial |-> serial]

\* the calls of the dispatch model: one call kind, with and without the
\* NO_REPLY_EXPECTED flag
Messages ==
    { Message(<<58, 49>>, <<105>>, f, 1) : f \in {{}, {ALLJOYN_FLAG_NO_REPLY_EXPECTED}} }

\* "n;a"
PermStrs == { <<110, 59, 97>> }

\* what the pool answers
WaitStatuses == {ER_OK, ER_THREADPOOL_STOPPING, ER_THREADPOOL_EXHAUSTED}
ExecStatuses == {ER_OK, ER_THREADPOOL_EXHAUSTED, ER_THREADPOOL_STOPPING, ER_FAIL}

\* what the daemon answers to GetConnectionUnixUser
IdStatuses == {ER_OK, ER_TIMEOUT}
UserIds == {10001, NoUser}

----------------------------------------------------------------------------
(* The dispatch thread and the tasks of one worker *)

Next ==
    \/ \E m \in Messages, p \in PermStrs : MethodCall(m, p)
    \/ \E m \in Messages, p \in PermStrs, n \in 0..MaxSubs : SignalCall(m, p, n)
    \/ \E st \in WaitStatuses : WaitForAvailableThread(st)
    \/ \E st \in ExecStatuses : Execute(st)
    \/ \E w \in Workers : TaskRun(w)
    \/ \E w \in Workers, st \in IdStatuses, uid \in UserIds, v \in BOOLEAN :
           IdentityReply(w, st, uid, v)
    \/ \E w \in Workers : TaskLock(w)
    \/ \E w \in Workers : TaskClear(w)
    \/ \E w \in Workers : TaskRecord(w)
    \/ \E w \in Workers : TaskFinish(w)
    \/ \E w \in Workers : TaskReap(w)

Spec == Init /\ [][Next]_vars

----------------------------------------------------------------------------
(* A pool that frees a worker in the end: the admission wait answers ER_OK  *)
(* and Execute answers ER_THREADPOOL_EXHAUSTED at most exhaustBudget times  *)
(* before it takes the closure.  The threads keep running: the dispatch     *)
(* thread stays in its loop, a worker runs the closure it holds, the daemon *)
(* answers or the round trip times out, the mutex is granted.               *)

InitLive ==
    /\ sub = Idle
    /\ task = [s \in Slots |-> Free]
    /\ query = NoQuery
    /\ permCheckedCallMap = <<>>
    /\ chkedCallMapLock = Unlocked
    /\ exhaustBudget \in 0..MaxExhausted
    /\ cacheLog = NoLog
    /\ cmp = NoCompare

LoopStep ==
    \/ WaitForAvailableThread(ER_OK)
    \/ \E st \in {ER_OK, ER_THREADPOOL_EXHAUSTED} : Execute(st)

WorkerStep ==
    \/ \E w \in Workers : TaskRun(w)
    \/ \E w \in Workers, st \in IdStatuses, uid \in UserIds, v \in BOOLEAN :
           IdentityReply(w, st, uid, v)
    \/ \E w \in Workers : TaskLock(w)
    \/ \E w \in Workers : TaskClear(w)
    \/ \E w \in Workers : TaskRecord(w)
    \/ \E w \in Workers : TaskFinish(w)
    \/ \E w \in Workers : TaskReap(w)

NextLive ==
    \/ \E m \in Messages, p \in PermStrs : MethodCall(m, p)
    \/ LoopStep
    \/ WorkerStep

SpecLive ==
    InitLive /\ [][NextLive]_vars /\ WF_vars(LoopStep) /\ WF_vars(WorkerStep)

----------------------------------------------------------------------------
(* The cache under calls and queries made one after another, for call      *)
(* kinds that differ in sender and interface                                *)

CacheMessages ==
    { Message(s, i, {ALLJOYN_FLAG_NO_REPLY_EXPECTED}, 1) :
        s \in {<<58, 49>>, <<58, 50>>}, i \in {<<105>>, <<106>>} }

\* the messages of the queries: the same call kinds, with another serial
\* number and other flags than the calls recorded
QueryMessages ==
    { Message(s, i, {}, 2) : s \in {<<58, 49>>, <<58, 50>>}, i \in {<<105>>, <<106>>} }

\* no call is being dispatched, no task is running, no query is under way
Quiet ==
    /\ sub.pc \in {"idle", "returned"}
    /\ \A w \in Workers : task[w].pc \in {"free", "done"}
    /\ query.pc \in {"idle", "returned"}

NextCache ==
    \/ \E m \in CacheMessages, p \in PermStrs : Quiet /\ MethodCall(m, p)
    \/ WaitForAvailableThread(ER_OK)
    \/ Execute(ER_OK)
    \/ \E w \in Workers : TaskRun(w)
    \/ \E w \in Workers, st \in IdStatuses, v \in BOOLEAN :
           IdentityReply(w, st, 10001, v)
    \/ \E w \in Workers : TaskLock(w)
    \/ \E w \in Workers : TaskClear(w)
    \/ \E w \in Workers : TaskRecord(w)
    \/ \E w \in Workers : TaskFinish(w)
    \/ \E w \in Workers : TaskReap(w)
    \/ \E m \in QueryMessages : Quiet /\ QueryCall(m)
    \/ QueryLock
    \/ QueryLookup
    \/ QueryReturn

SpecCache == Init /\ [][NextCache]_vars

----------------------------------------------------------------------------
(* Two workers and a querying thread that run concurrently, for calls of   *)
(* one call kind.  The cache is empty at first, or full: three earlier      *)
(* calls have recorded MAX_PERM_CHECKEDCALL_SIZE + 1 signatures.            *)

ConcSlots == {1, 2}

ConcMessage == Message(<<58, 49>>, <<105>>, {}, 1)

FullCache ==
    << [key |-> PermCheckedEntry(<<58, 49>>, <<47, 97>>, <<105>>, <<109>>), val |-> TRUE],
       [key |-> PermCheckedEntry(<<58, 49>>, <<47, 97>>, <<106>>, <<109>>), val |-> TRUE],
       [key |-> PermCheckedEntry(<<58, 50>>, <<47, 97>>, <<106>>, <<109>>), val |-> TRUE] >>

FullLog == [recorded |-> { FullCache[i] : i \in 1..Len(FullCache) }, cleared |-> FALSE]

InitConc ==
    /\ sub = Idle
    /\ task = [s \in ConcSlots |-> Free]
    /\ query = NoQuery
    /\ \/ permCheckedCallMap = <<>> /\ cacheLog = NoLog
       \/ permCheckedCallMap = FullCache /\ cacheLog = FullLog
    /\ chkedCallMapLock = Unlocked
    /\ exhaustBudget = Unbounded
    /\ cmp = NoCompare

NextConc ==
    \/ \E p \in PermStrs : MethodCall(ConcMessage, p)
    \/ WaitForAvailableThread(ER_OK)
    \/ Execute(ER_OK)
    \/ \E w \in Workers : TaskRun(w)
    \/ \E w \in Workers, st \in IdStatuses, v \in BOOLEAN :
           IdentityReply(w, st, 10001, v)
    \/ \E w \in Workers : TaskLock(w)
    \/ \E w \in Workers : TaskClear(w)
    \/ \E w \in Workers : TaskRecord(w)
    \/ \E w \in Workers : TaskFinish(w)
    \/ \E w \in Workers : TaskReap(w)
    \/ QueryCall(ConcMessage)
    \/ QueryLock
    \/ QueryLookup
    \/ QueryReturn

SpecConc == InitConc /\ [][NextConc]_vars

----------------------------------------------------------------------------
(* PermCheckedEntry::operator< on its own: a caller compares three entries *)

Entries ==
    { PermCheckedEntry(s, o, i, n) :
        s \in {<<58, 49>>, <<58, 50>>}, o \in {<<47, 97>>, <<47, 98>>},
        i \in {<<105>>, <<106>>}, n \in {<<109>>, <<110>>} }

InitLess ==
    /\ sub = Idle
    /\ task = [s \in Slots |-> Free]
    /\ query = NoQuery
    /\ permCheckedCallMap = <<>>
    /\ chkedCallMapLock = Unlocked
    /\ exhaustBudget = Unbounded
    /\ cacheLog = NoLog
    /\ cmp \in { [NoCompare EXCEPT !.pc = "input", !.a = a, !.b = b, !.c = c] :
                  a \in Entries, b \in Entries, c \in Entries }

\* a < b, b < a, b < c and a < c are evaluated
Compare ==
    /\ cmp.pc = "input"
    /\ cmp' = [cmp EXCEPT !.pc = "compared",
                          !.ab = EntryLess(cmp.a, cmp.b),
                          !.ba = EntryLess(cmp.b, cmp.a),
                          !.bc = EntryLess(cmp.b, cmp.c),
                          !.ac = EntryLess(cmp.a, cmp.c)]
    /\ UNCHANGED <<sub, task, query, permCheckedCallMap, chkedCallMapLock,
                   exhaustBudget, cacheLog>>

NextLess == Compare

SpecLess == InitLess /\ [][NextLess]_vars

----------------------------------------------------------------------------
(* The parse of the permission string on its own: two closures are queued, *)
(* each with a string of at most MaxPermLen characters over 'n', 'a' and   *)
(* ';', and each worker enters DoPeerPermissionInquiry and parses its own.  *)

ParseAlphabet == {110, 97, SEMICOLON}

ParseStrs == UNION { [1..k -> ParseAlphabet] : k \in 0..MaxPermLen }

InitParse ==
    /\ sub = Idle
    /\ task \in { [s \in ConcSlots |->
                     [Free EXCEPT !.pc = "queued", !.type = "method",
                                  !.message = ConcMessage,
                                  !.permStr = IF s = 1 THEN p ELSE q]] :
                  p \in ParseStrs, q \in ParseStrs }
    /\ query = NoQuery
    /\ permCheckedCallMap = <<>>
    /\ chkedCallMapLock = Unlocked
    /\ exhaustBudget = Unbounded
    /\ cacheLog = NoLog
    /\ cmp = NoCompare

NextParse == \E w \in Workers : TaskRun(w)

SpecParse == InitParse /\ [][NextParse]_vars

----------------------------------------------------------------------------
(* The concurrent threads of SpecConc under a scheduler that lets every     *)
(* thread run: the pool takes a closure once a worker is free, a worker     *)
(* runs its closure, a thread that waits for the mutex gets it once its     *)
(* holders keep releasing it.  The daemon answers the identity request of   *)
(* the second worker (or the request times out); the request of the first   *)
(* worker may stay unanswered for ever.                                      *)

ConcLoopStep == WaitForAvailableThread(ER_OK) \/ Execute(ER_OK)

Critical(w) == TaskClear(w) \/ TaskRecord(w) \/ TaskFinish(w)

Reply(w) == \E st \in IdStatuses, v \in BOOLEAN : IdentityReply(w, st, 10001, v)

SpecStall ==
    /\ InitConc /\ [][NextConc]_vars
    /\ WF_vars(ConcLoopStep)
    /\ \A w \in ConcSlots :
          /\ WF_vars(TaskRun(w))
          /\ SF_vars(TaskLock(w))
          /\ WF_vars(Critical(w))
          /\ WF_vars(TaskReap(w))
    /\ WF_vars(Reply(2))
    /\ SF_vars(QueryLock)
    /\ WF_vars(QueryLookup)
    /\ WF_vars(QueryReturn)

----------------------------------------------------------------------------
(* The status codes in the admission loop: the pool answers the wait and    *)
(* Execute with any code of the enumeration.                                *)

NextStatus ==
    \/ \E m \in Messages, p \in PermStrs : MethodCall(m, p)
    \/ \E i \in DOMAIN QStatus : WaitForAvailableThread(EnumValue(i))
    \/ \E i \in DOMAIN QStatus : Execute(EnumValue(i))

SpecStatus == Init /\ [][NextStatus]_vars

----------------------------------------------------------------------------
(* Properties of PeerAuthAndHandleMethodCall *)

MethodReturned == sub.type = "method" /\ sub.pc = "returned"

C2_TerminalExecuteFailure ==
    (sub.type = "method" /\ sub.execRet \notin {NoStatus, ER_OK, ER_THREADPOOL_EXHAUSTED})
        => (sub.pc = "returned" /\ sub.ret = sub.execRet)

\* Execute failed terminally after a retry
C2_Witness ==
    MethodReturned /\ sub.retried /\ sub.execRet = ER_THREADPOOL_STOPPING
                   /\ sub.ret = ER_THREADPOOL_STOPPING

\* C3: once WaitForAvailableThread has answered a status other than ER_OK,
\* the method call has returned that status: it did not go on to Execute
\* and is not in the loop any more
C3_WaitFailureAborts ==
    (sub.type = "method" /\ sub.waitRet \notin {NoStatus, ER_OK})
        => (sub.pc = "returned" /\ sub.ret = sub.waitRet /\ sub.accepted = 0)

\* the wait failed in the second iteration, after an exhausted Execute
C3_Witness ==
    MethodReturned /\ sub.retried /\ sub.waitRet = ER_THREADPOOL_STOPPING
                   /\ sub.execRet = ER_THREADPOOL_EXHAUSTED

----------------------------------------------------------------------------
(* Properties of the tasks *)

Ran(t) == t.pc = "done"

\* C5: the pool takes at most one closure of a method call, and the task of
\* a closure runs the method handler at most once, only when its own inquiry
\* has returned PP_ALLOWED; when PeerAuthAndHandleMethodCall returned a
\* failure the pool took no closure of the call, so that no task exists to
\* run its handler or send an error reply for it
C5_HandlerOnlyWhenAllowed ==
    /\ \A w \in Workers :
         task[w].type = "method" =>
           /\ Len(task[w].handled) <= 1
           /\ task[w].handled # <<>> =>
                /\ Ran(task[w]) /\ task[w].pps = PP_ALLOWED
                /\ task[w].handled[1].args = <<task[w].message>>
    /\ sub.type = "method" => (sub.accepted <= 1 /\ Cardinality(sub.workers) = sub.accepted)
    /\ (MethodReturned /\ sub.ret # ER_OK) => (sub.accepted = 0 /\ sub.workers = {})

\* the handler of an accepted, allowed call has run
C5_Witness ==
    /\ MethodReturned /\ sub.ret = ER_OK
    /\ \E w \in sub.workers : Ran(task[w]) /\ Len(task[w].handled) = 1

\* C6: a method task whose inquiry returned PP_DENIED never runs the
\* handler; without NO_REPLY_EXPECTED it sends exactly one error reply, named
\* "org.alljoyn.Bus." + the text of ER_ALLJOYN_ACCESS_PERMISSION_ERROR, with
\* the description of the call as its message; with the flag it sends none
C6_DeniedMethodReply ==
    \A w \in Workers :
      (task[w].type = "method" /\ Ran(task[w]) /\ task[w].pps = PP_DENIED) =>
        /\ task[w].handled = <<>>
        /\ task[w].replies =
             IF ALLJOYN_FLAG_NO_REPLY_EXPECTED \in task[w].message.flags
             THEN <<>>
             ELSE <<[to |-> task[w].message,
                     errStr |-> "org.alljoyn.Bus."
                                \o QCC_StatusText(ER_ALLJOYN_ACCESS_PERMISSION_ERROR),
                     errMsg |-> Description(task[w].message)]>>

\* a denied method call that expected a reply has been answered
C6_Witness ==
    \E w \in Workers :
      /\ task[w].type = "method" /\ Ran(task[w]) /\ task[w].pps = PP_DENIED
      /\ ALLJOYN_FLAG_NO_REPLY_EXPECTED \notin task[w].message.flags
      /\ Len(task[w].replies) = 1

\* C7: a signal task never sends a reply; denied, it does not run the
\* subscriber's handler; allowed, it runs it exactly once with
\* (member, object path, message)
C7_SignalDelivery ==
    \A w \in Workers :
      (task[w].type = "signal" /\ Ran(task[w])) =>
        /\ task[w].replies = <<>>
        /\ task[w].pps = PP_DENIED => task[w].handled = <<>>
        /\ task[w].pps = PP_ALLOWED =>
             task[w].handled = <<[handler |-> "SignalHandler",
                                  entry |-> task[w].entry,
                                  args |-> <<task[w].message.member,
                                             task[w].message.objectPath,
                                             task[w].message>>]>>
        /\ task[w].pps \in {PP_ALLOWED, PP_DENIED}

\* a denied signal that expected a reply has been dropped
C7_Witness ==
    \E w \in Workers :
      /\ task[w].type = "signal" /\ Ran(task[w]) /\ task[w].pps = PP_DENIED
      /\ ALLJOYN_FLAG_NO_REPLY_EXPECTED \notin task[w].message.flags

----------------------------------------------------------------------------
(* Properties of DoPeerPermissionInquiry *)

\* the inquiry of t has the daemon's answer
Resolved(t) == t.pc \in {"lockwait", "locked", "cleared", "recorded", "done"}

CacheHolds(key, val) ==
    \E p \in 1..Len(permCheckedCallMap) :
        permCheckedCallMap[p] = [key |-> key, val |-> val]

\* C8: when GetConnectionUnixUser fails, the verifier is not asked, the
\* entry written for the call (seen before the lock is released) is allowed
\* = true, and the inquiry returns PP_ALLOWED
C8_FailOpen ==
    \A w \in Workers :
      (Resolved(task[w]) /\ task[w].status # ER_OK) =>
        /\ task[w].verified = <<>>
        /\ task[w].allowed
        /\ task[w].pc = "recorded" => CacheHolds(EntryOf(task[w].message), TRUE)
        /\ Ran(task[w]) => task[w].pps = PP_ALLOWED

\* an inquiry whose round trip timed out has returned
C8_Witness ==
    \E w \in Workers : Ran(task[w]) /\ task[w].status = ER_TIMEOUT

\* C9, as claimed: whenever GetConnectionUnixUser succeeds, for every user
\* id (0xFFFFFFFF too), the verifier is asked exactly once with the id and
\* the parsed permissions, and the verdict is PP_ALLOWED iff it answered true
VerifiedOnce(t) ==
    /\ Len(t.verified) = 1
    /\ t.verified[1].userId = t.userId
    /\ t.verified[1].permsReq = t.permsReq
    /\ t.permsReq \in { SplitPermissions(p, {}) : p \in PermStrs }
    /\ t.allowed = t.verified[1].result
    /\ Ran(t) => (t.pps = PP_ALLOWED <=> t.verified[1].result)

C9_VerifierAlwaysAsked ==
    \A w \in Workers :
      (Resolved(task[w]) /\ task[w].status = ER_OK) => VerifiedOnce(task[w])

\* C9, amended: for every user id but 0xFFFFFFFF the verifier is asked
\* exactly once with the id and the parsed permissions, and the verdict is
\* PP_ALLOWED iff it answered true; for 0xFFFFFFFF the verifier is not asked
\* and the verdict is PP_ALLOWED
C9_VerifierAskedForKnownUser ==
    \A w \in Workers :
      (Resolved(task[w]) /\ task[w].status = ER_OK) =>
        IF task[w].userId # NoUser
        THEN VerifiedOnce(task[w])
        ELSE /\ task[w].verified = <<>>
             /\ task[w].allowed
             /\ Ran(task[w]) => task[w].pps = PP_ALLOWED

\* the verifier refused a known user and the inquiry returned PP_DENIED
C9_Witness ==
    \E w \in Workers :
      /\ Ran(task[w]) /\ task[w].status = ER_OK /\ task[w].userId = 10001
      /\ task[w].pps = PP_DENIED

----------------------------------------------------------------------------
(* Liveness of PeerAuthAndHandleMethodCall *)

InLoop == sub.type = "method" /\ sub.pc \in {"wait", "exec"}

\* C4: under a pool whose admission wait answers ER_OK and whose Execute
\* answers ER_THREADPOOL_EXHAUSTED finitely often before it takes the
\* closure, every method call returns, it returns ER_OK, and the pool has
\* taken its closure exactly once
C4_EventuallyAccepted ==
    /\ [](MethodReturned => (sub.ret = ER_OK /\ sub.accepted = 1))
    /\ (InLoop ~> MethodReturned)

\* a call returned ER_OK after the pool had answered exhausted twice
C4_Witness ==
    MethodReturned /\ sub.retried /\ exhaustBudget = 0 /\ sub.ret = ER_OK
                   /\ sub.accepted = 1

----------------------------------------------------------------------------
(* Properties of CanPeerDoCall *)

\* C10: a query that follows the inquiry of a task for the same call
\* signature (nothing recorded or cleared in between) returns the verdict
\* of that inquiry: PP_DENIED after PP_DENIED, PP_ALLOWED after PP_ALLOWED
C10_QueryReturnsCachedVerdict ==
    \A w \in Workers :
      (/\ query.pc = "returned"
       /\ Ran(task[w])
       /\ EntryOf(task[w].message) = EntryOf(query.message))
      => query.pps = task[w].pps

\* C11: CanPeerDoCall returns PP_PENDING if and only if the cache holds no
\* entry for the signature of the message at the moment of the lookup
HasEntry(key) == \E p \in 1..Len(permCheckedCallMap) : permCheckedCallMap[p].key = key

C11_PendingIffAbsent ==
    query.pc = "looked" =>
        (query.pps = PP_PENDING <=> ~HasEntry(EntryOf(query.message)))

\* C12: CanPeerDoCall is read-only: no step of the querying thread changes
\* the cache (no entry is inserted, removed or overwritten, also for an
\* absent signature), and no such step is a step of an inquiry (no
\* identity request, no verifier call is made or logged)
C12_QueryReadOnly ==
    [][query' # query =>
          /\ permCheckedCallMap' = permCheckedCallMap
          /\ cacheLog' = cacheLog
          /\ task' = task]_vars

\* a query for a signature the non-empty cache does not hold was answered
\* PP_PENDING and left the cache as the records made it
C12_Witness ==
    /\ query.pc = "returned" /\ query.pps = PP_PENDING
    /\ ~HasEntry(EntryOf(query.message))
    /\ Len(permCheckedCallMap) = 2
    /\ Keys(permCheckedCallMap) = { e.key : e \in cacheLog.recorded }

----------------------------------------------------------------------------
(* Properties of the cache *)

\* C13: the verdict last recorded for a signature since the last clear is
\* the value of the cache entry for that signature: the entry is present and
\* no entry for the signature holds another value
C13_RecordedEntryStays ==
    \A e \in cacheLog.recorded :
        /\ HasEntry(e.key)
        /\ \A p \in 1..Len(permCheckedCallMap) :
               permCheckedCallMap[p].key = e.key => permCheckedCallMap[p].val = e.val

\* C14: the cache never holds more than MAX_PERM_CHECKEDCALL_SIZE entries
C14_SizeWithinCapacity == Len(permCheckedCallMap) <= MAX_PERM_CHECKEDCALL_SIZE

\* C15: from an empty cache, the record of the (MAX_PERM_CHECKEDCALL_SIZE +
\* 1)-th distinct signature clears the cache (before any clear the cache
\* never holds MAX_PERM_CHECKEDCALL_SIZE + 1 distinct signatures); the cache
\* holds only signatures recorded since the last clear; and it never holds
\* more than MAX_PERM_CHECKEDCALL_SIZE + 1 entries
C15_ClearAtCapacity ==
    /\ ~cacheLog.cleared =>
          Cardinality(Keys(permCheckedCallMap)) <= MAX_PERM_CHECKEDCALL_SIZE
    /\ Keys(permCheckedCallMap) \subseteq { e.key : e \in cacheLog.recorded }
    /\ Len(permCheckedCallMap) <= MAX_PERM_CHECKEDCALL_SIZE + 1

\* C17: the signature alone identifies a cache entry: the cache never holds
\* two entries with the same signature, and a query that follows an inquiry
\* finds the value that inquiry recorded when its message has the same four
\* fields (whatever its serial number and flags), and otherwise finds at
\* most an entry of its own signature
C17_SignatureIsIdentity ==
    /\ \A p, q \in 1..Len(permCheckedCallMap) :
           permCheckedCallMap[p].key = permCheckedCallMap[q].key => p = q
    /\ \A w \in Workers :
           (query.pc = "looked" /\ Ran(task[w])) =>
              IF EntryOf(task[w].message) = EntryOf(query.message)
              THEN query.pps = CachedVerdict(task[w].allowed)
              ELSE query.pps # PP_PENDING => HasEntry(EntryOf(query.message))

----------------------------------------------------------------------------
(* The inquiry and the cache *)

\* the external calls an inquiry has made
ExternalCalls(t) == [status |-> t.status, userId |-> t.userId, verifier |-> t.verified]

\* C18: the inquiry does not read the cache: two inquiries with the same
\* message, the same outcome of the identity request and the same answers of
\* the verifier make the same external calls and reach the same verdict,
\* whatever the cache held when they ran; every inquiry whose result is
\* settled has made its own identity request
C18_InquiryIgnoresCache ==
    \A w1, w2 \in Workers :
      (/\ Resolved(task[w1]) /\ Resolved(task[w2])
       /\ task[w1].message = task[w2].message
       /\ task[w1].status = task[w2].status
       /\ task[w1].userId = task[w2].userId)
      => /\ Len(task[w1].verified) = Len(task[w2].verified)
         /\ Len(task[w1].verified) = (IF task[w1].userId # NoUser THEN 1 ELSE 0)
         /\ ExternalCalls(task[w1]) = ExternalCalls(task[w2])
               => /\ task[w1].allowed = task[w2].allowed
                  /\ (Ran(task[w1]) /\ Ran(task[w2])) => task[w1].pps = task[w2].pps

\* the cache holds allowed = true for the signature, and an inquiry for that
\* signature has asked the daemon and the verifier again and is about to
\* record false, while the other task's inquiry of the same call has
\* returned PP_DENIED as well
C18_Witness ==
    \E w1, w2 \in Workers :
      /\ w1 # w2
      /\ task[w1].pc = "lockwait" /\ Ran(task[w2])
      /\ ExternalCalls(task[w1]) = ExternalCalls(task[w2])
      /\ Len(task[w1].verified) = 1 /\ ~task[w1].allowed
      /\ task[w2].pps = PP_DENIED
      /\ CacheHolds(EntryOf(task[w1].message), TRUE)

TaskInCritical(w) == task[w].pc \in {"locked", "cleared", "recorded"}
QueryInCritical == query.pc \in {"locked", "looked"}

\* C20: a thread is inside a cache critical section only while it holds
\* chkedCallMapLock, so that at most one thread is inside one and no thread
\* looks at the cache between another's clear and insert; and the cache
\* changes only in a step of the inquiry that holds the lock before and
\* after the step
C20_CacheUnderLock ==
    /\ [](/\ \A w \in Workers : TaskInCritical(w) <=> chkedCallMapLock = Worker(w)
          /\ QueryInCritical <=> chkedCallMapLock = Querier
          /\ Cardinality({ w \in Workers : TaskInCritical(w) })
               + (IF QueryInCritical THEN 1 ELSE 0) <= 1)
    /\ [][permCheckedCallMap' # permCheckedCallMap =>
            \E w \in Workers :
               /\ chkedCallMapLock = Worker(w) /\ chkedCallMapLock' = Worker(w)
               /\ TaskInCritical(w) /\ TaskInCritical(w)']_vars

\* an inquiry has cleared the full cache and not yet inserted, while the
\* other inquiry and a query wait for the lock
C20_Witness ==
    \E w1, w2 \in Workers :
      /\ task[w1].pc = "cleared" /\ permCheckedCallMap = <<>> /\ cacheLog = Cleared
      /\ task[w2].pc = "lockwait"
      /\ query.pc = "lockwait"

----------------------------------------------------------------------------
(* Properties of PeerAuthAndHandleSignalCall *)

SignalReturned == sub.type = "signal" /\ sub.pc = "returned"

\* the subscribers whose submission has ended, with a failure
Failed(s) == { j \in 1..Len(s.outcomes) : s.outcomes[j] # ER_OK }

\* C21: the signal fan-out runs the admission loop once for every entry of
\* the subscriber list, in list order, whatever the earlier entries ended
\* with: while the fan-out is at entry i the i - 1 entries before it have
\* their outcome, at the return every entry has one, and the closure a worker
\* holds belongs to an entry that was accepted
C21_EverySubscriberSubmitted ==
    sub.type = "signal" =>
        /\ sub.pc = "returned" => Len(sub.outcomes) = sub.n /\ sub.i = sub.n + 1
        /\ sub.pc # "returned" => sub.i \in 1..sub.n /\ Len(sub.outcomes) = sub.i - 1
        /\ \A w \in sub.workers :
              task[w].pc # "free" =>
                  /\ task[w].type = "signal"
                  /\ task[w].entry \in 1..sub.n
                  /\ task[w].entry <= sub.i
                  /\ task[w].entry <= Len(sub.outcomes)
                        => sub.outcomes[task[w].entry] = ER_OK

\* the first subscriber failed for good, the second was accepted and its
\* handler has run
C21_Witness ==
    /\ SignalReturned /\ sub.n = 2
    /\ sub.outcomes[1] = ER_THREADPOOL_STOPPING
    /\ sub.outcomes[2] = ER_OK
    /\ \E w \in sub.workers :
          /\ task[w].pc = "done" /\ task[w].entry = 2
          /\ Len(task[w].handled) = 1 /\ task[w].handled[1].entry = 2

\* C22: the signal fan-out returns ER_OK only if the closure of every
\* subscriber was accepted
C22_OkOnlyIfAllAccepted ==
    SignalReturned /\ sub.ret = ER_OK => Failed(sub) = {}

----------------------------------------------------------------------------
(* Properties of the parse of the permission string *)

\* s[i..j] lies between two separators (or the ends of s) and holds none
Delimited(s, i, j) ==
    /\ i - 1 <= j
    /\ i = 1 \/ s[i - 1] = SEMICOLON
    /\ j = Len(s) \/ s[j + 1] = SEMICOLON
    /\ \A k \in i..j : s[k] # SEMICOLON

\* all the ';'-separated tokens of s, the empty ones included
AllTokens(s) ==
    { SubSeq(s, i, j) : <<i, j>> \in { ij \in (1..(Len(s) + 1)) \X (0..Len(s)) :
                                          Delimited(s, ij[1], ij[2]) } }

\* the tokens of s, where a trailing ';' adds none
Tokens(s) ==
    { SubSeq(s, i, j) : <<i, j>> \in { ij \in (1..Len(s)) \X (0..Len(s)) :
                                          Delimited(s, ij[1], ij[2]) } }

\* q joins, with ';', the tokens of p in some order, each one or more times
Reordering(p, q) ==
    \/ AllTokens(q) = Tokens(p)
    \/ q = <<>> /\ Tokens(p) = {}

\* q is a reordering of p followed by one more ';'
ReorderingWithTrailer(p, q) ==
    /\ Len(q) > 1
    /\ q[Len(q)] = SEMICOLON
    /\ Reordering(p, SubSeq(q, 1, Len(q) - 1))

Parsed(w) == task[w].pc = "identity"

\* C23 as stated: the parse yields the set of the ';'-separated tokens of the
\* string, the same set for every reordering or duplication of the tokens,
\* with or without a trailing ';'; "n;a" gives {"n", "a"}
C23_TokenSetAnyOrder ==
    \A w1, w2 \in Workers :
        Parsed(w1) /\ Parsed(w2) =>
            /\ task[w1].permsReq = Tokens(task[w1].input)
            /\ task[w1].input = <<110, 59, 97>> => task[w1].permsReq = {<<110>>, <<97>>}
            /\ (\/ Reordering(task[w1].input, task[w2].input)
                \/ ReorderingWithTrailer(task[w1].input, task[w2].input))
                  => task[w2].permsReq = task[w1].permsReq

\* C23, for strings without empty tokens: the parse yields the set of the
\* ';'-separated tokens of the string (an empty token counts unless it is the
\* last); when no token of the string is empty the set is the same for every
\* reordering or duplication of its tokens, with or without a trailing ';';
\* "n;a" gives {"n", "a"}
C23_TokenSetOfNamedTokens ==
    \A w1, w2 \in Workers :
        Parsed(w1) /\ Parsed(w2) =>
            /\ task[w1].permsReq = Tokens(task[w1].input)
            /\ task[w1].input = <<110, 59, 97>> => task[w1].permsReq = {<<110>>, <<97>>}
            /\ (/\ <<>> \notin Tokens(task[w1].input)
                /\ (\/ Reordering(task[w1].input, task[w2].input)
                    \/ ReorderingWithTrailer(task[w1].input, task[w2].input)))
                  => task[w2].permsReq = task[w1].permsReq

\* "n;a" and "a;n;" have been parsed, to the same two permissions
C23_Witness ==
    /\ Parsed(1) /\ task[1].input = <<110, 59, 97>>
    /\ Parsed(2) /\ task[2].input = <<97, 59, 110, 59>>
    /\ task[1].permsReq = {<<110>>, <<97>>}
    /\ task[2].permsReq = task[1].permsReq

----------------------------------------------------------------------------
(* Who performs the inquiry, and what a stalled inquiry blocks *)

C29_LockNotHeldAcrossCalls ==
    /\ [](\A w \in Workers :
            chkedCallMapLock = Worker(w)
               => /\ task[w].pc \notin {"free", "queued", "identity", "lockwait", "done"}
                  /\ task[w].userId # NoUser => Len(task[w].verified) = 1)
    /\ [](query.pc \in {"idle", "lockwait", "returned"} => chkedCallMapLock # Querier)
    /\ (chkedCallMapLock # Unlocked ~> chkedCallMapLock = Unlocked)
    /\ (query.pc = "lockwait" ~> query.pc = "returned")

\* the first worker is inside its identity request while a query holds the
\* lock and has looked its signature up
C29_Witness ==
    /\ task[1].pc = "identity"
    /\ query.pc = "looked" /\ chkedCallMapLock = Querier

----------------------------------------------------------------------------
(* Eviction *)

\* every lookup of k in m finds its entry
Findable(m, k) == \A p \in MapLowerBound(m, k) : ~MapMiss(m, k, p)

\* the step is lines 94-96 of an inquiry
ClearStep == \E w \in Workers : task[w].pc = "locked" /\ task'[w].pc = "cleared"

\* C25: eviction is all-or-nothing: no step takes a single entry out of the
\* cache; a signature whose verdict a lookup finds stops being found only in
\* a step that empties the cache, and the cache is emptied only in the clear
\* of an inquiry that found more than MAX_PERM_CHECKEDCALL_SIZE entries
C25_EvictionOnlyByClear ==
    /\ [][\A k \in Keys(permCheckedCallMap) :
             (k \notin Keys(permCheckedCallMap')
                 \/ (Findable(permCheckedCallMap, k) /\ ~Findable(permCheckedCallMap', k)))
               => permCheckedCallMap' = <<>>]_vars
    /\ [][(permCheckedCallMap # <<>> /\ permCheckedCallMap' = <<>>)
             => (ClearStep /\ Len(permCheckedCallMap) > MAX_PERM_CHECKEDCALL_SIZE)]_vars

----------------------------------------------------------------------------
(* Properties of the status enumeration *)

\* the enumerators that have the value v
Enumerators(v) == { i \in DOMAIN QStatus : EnumValue(i) = v }

----------------------------------------------------------------------------
(* Termination of PeerAuthAndHandleMethodCall *)

\* the step is an answer of the pool to the method call in its loop
WaitAnswered == sub.type = "method" /\ sub.pc = "wait" /\ sub' # sub
ExecuteAnswered == sub.type = "method" /\ sub.pc = "exec" /\ sub' # sub

\* C28: the admission loop of a method call has no retry bound.  The call
\* returns exactly when the wait answers something other than ER_OK or
\* Execute answers something other than ER_THREADPOOL_EXHAUSTED; an ER_OK
\* from the wait takes it on to Execute and an ER_THREADPOOL_EXHAUSTED from
\* Execute takes it back to the wait, however often that has happened
\* before, so that under a pool that only gives these two answers the call
\* stays in the loop for ever
C28_NoRetryBound ==
    /\ [](MethodReturned =>
            \/ sub.waitRet \notin {NoStatus, ER_OK}
            \/ sub.waitRet = ER_OK /\ sub.execRet \notin {NoStatus, ER_THREADPOOL_EXHAUSTED})
    /\ [][WaitAnswered =>
            /\ sub'.type = "method" /\ sub'.message = sub.message
            /\ sub'.waitRet = ER_OK => sub'.pc = "exec"
            /\ sub'.waitRet # ER_OK => sub'.pc = "returned"]_vars
    /\ [][ExecuteAnswered =>
            /\ sub'.type = "method" /\ sub'.message = sub.message
            /\ sub'.execRet = ER_THREADPOOL_EXHAUSTED => sub'.pc = "wait"
            /\ sub'.execRet # ER_THREADPOOL_EXHAUSTED => sub'.pc = "returned"]_vars
    /\ [][(ExecuteAnswered /\ sub.retried /\ sub'.execRet = ER_THREADPOOL_EXHAUSTED)
             => sub' = [sub EXCEPT !.pc = "wait", !.status = ER_THREADPOOL_EXHAUSTED,
                                   !.execRet = ER_THREADPOOL_EXHAUSTED]]_vars

\* the call is at Execute again after the pool has answered exhausted
C28_Witness ==
    /\ sub.type = "method" /\ sub.pc = "exec" /\ sub.retried
    /\ sub.waitRet = ER_OK /\ sub.execRet = ER_THREADPOOL_EXHAUSTED

\* the inquiry of w is about to record a signature that the cache, holding
\* MAX_PERM_CHECKEDCALL_SIZE + 1 entries, already holds
OverwriteWhenFull(w) ==
    /\ task[w].pc = "locked"
    /\ Len(permCheckedCallMap) = MAX_PERM_CHECKEDCALL_SIZE + 1
    /\ EntryOf(task[w].message) \in Keys(permCheckedCallMap)

\* C30: the eviction test does not look at the signature: an inquiry that
\* records a signature already cached, in a cache of
\* MAX_PERM_CHECKEDCALL_SIZE + 1 entries, empties the cache first, and its
\* insert into the emptied cache leaves exactly the one entry of its
\* signature
C30_OverwriteEvictsOthers ==
    /\ [][\A w \in Workers :
             (OverwriteWhenFull(w) /\ task'[w].pc = "cleared")
                => (permCheckedCallMap' = <<>> /\ cacheLog' = Cleared)]_vars
    /\ [](\A w \in Workers :
             (task[w].pc = "cleared" /\ cacheLog = Cleared) => permCheckedCallMap = <<>>)
    /\ [][\A w \in Workers :
             (task[w].pc = "cleared" /\ cacheLog = Cleared /\ task'[w].pc = "recorded")
                => permCheckedCallMap' = << [key |-> EntryOf(task[w].message),
                                             val |-> task[w].allowed] >>]_vars

\* a query found the signature cached; the next call of that signature
\* cleared the cache and recorded: the cache holds this one entry
C30_Witness ==
    \E w \in Workers :
       /\ task[w].pc = "recorded" /\ cacheLog.cleared
       /\ Cardinality(cacheLog.recorded) = 1
       /\ query.pc = "returned" /\ query.pps # PP_PENDING
       /\ EntryOf(query.message) = EntryOf(task[w].message)
       /\ Keys(permCheckedCallMap) = {EntryOf(task[w].message)}
       /\ Len(permCheckedCallMap) = 1

----------------------------------------------------------------------------
(* What the signal fan-out returns, and the empty permission *)

\* C31: PeerAuthAndHandleSignalCall returns the status its last subscriber's
\* admission loop ended with, the answer of the wait if that was not ER_OK
\* and the answer of Execute otherwise, whatever the subscribers before it
\* ended with; for an empty list it returns ER_OK and has called the pool
\* neither for a wait nor for Execute
C31_ReturnsLastStatus ==
    SignalReturned =>
        /\ sub.n = 0 => /\ sub.ret = ER_OK
                        /\ sub.waitRet = NoStatus /\ sub.execRet = NoStatus
                        /\ sub.accepted = 0 /\ sub.workers = {}
        /\ sub.n > 0 => /\ sub.ret = sub.outcomes[sub.n]
                        /\ sub.ret = IF sub.waitRet # ER_OK THEN sub.waitRet
                                     ELSE sub.execRet

\* Execute failed for the first of two subscribers, the wait failed with
\* another status for the second, and the fan-out returned the second status
C31_Witness ==
    /\ SignalReturned /\ sub.n = 2
    /\ sub.outcomes = <<ER_FAIL, ER_THREADPOOL_STOPPING>>
    /\ sub.ret = ER_THREADPOOL_STOPPING

\* s has a ';' with no token text before it: at its start, or after a ';'
EmptyLed(s) ==
    \E i \in 1..Len(s) : s[i] = SEMICOLON /\ (i = 1 \/ s[i - 1] = SEMICOLON)

\* C32: the parse drops only what is empty after the last ';': the empty
\* string is among the permissions required exactly when some ';' of the
\* string has no token text before it; "n;;a" and ";n;a" give
\* {"n", "", "a"}, "n;a;" gives {"n", "a"}
C32_OnlyTrailingEmptyDropped ==
    \A w \in Workers :
        Parsed(w) =>
            /\ <<>> \in task[w].permsReq <=> EmptyLed(task[w].input)
            /\ task[w].input \in {<<110, 59, 59, 97>>, <<59, 110, 59, 97>>}
                  => task[w].permsReq = {<<110>>, <<>>, <<97>>}
            /\ task[w].input = <<110, 59, 97, 59>>
                  => task[w].permsReq = {<<110>>, <<97>>}

\* "n;;a" has been parsed with the empty permission, "n;a;" without it
C32_Witness ==
    /\ Parsed(1) /\ task[1].input = <<110, 59, 59, 97>>
    /\ task[1].permsReq = {<<110>>, <<>>, <<97>>}
    /\ Parsed(2) /\ task[2].input = <<110, 59, 97, 59>>
    /\ task[2].permsReq = {<<110>>, <<97>>}

----------------------------------------------------------------------------
(* Properties of PermCheckedEntry::operator< *)

\* the lexicographic order over (sender, object path, interface, member)
LexLess(a, b) ==
    \/ StringLess(a.sender, b.sender)
    \/ /\ a.sender = b.sender
       /\ \/ StringLess(a.sourcePath, b.sourcePath)
          \/ /\ a.sourcePath = b.sourcePath
             /\ \/ StringLess(a.iface, b.iface)
                \/ /\ a.iface = b.iface
                   /\ StringLess(a.signalName, b.signalName)

\* C16: operator< is a strict total order, the lexicographic one: of a < b,
\* b < a and a = b exactly one holds, a < b and b < c give a < c, and a < b
\* iff a precedes b lexicographically
C16_StrictTotalOrder ==
    cmp.pc = "compared" =>
        /\ (cmp.ab /\ ~cmp.ba /\ cmp.a # cmp.b)
              \/ (~cmp.ab /\ cmp.ba /\ cmp.a # cmp.b)
              \/ (~cmp.ab /\ ~cmp.ba /\ cmp.a = cmp.b)
        /\ (cmp.ab /\ cmp.bc) => cmp.ac
        /\ cmp.ab <=> LexLess(cmp.a, cmp.b)

====
